---- MODULE Spec2Model ----
(***************************************************************************)
(* Model of the in-memory concurrency primitives of the repository:        *)
(*   src/src/lib/concurrency.ts       Mutex, Semaphore, registries,        *)
(*                                    withMutex, withSemaphore             *)
(*   src/src/lib/data-change-mutex.ts DataChangeMutex, defaultCompare,     *)
(*                                    dataChangeMutexes                    *)
(*                                                                         *)
(* JavaScript is single-threaded and cooperative: every action below is    *)
(* one synchronous run-to-completion segment of a caller, from one await   *)
(* to the next.  A promise that has been resolved resumes its awaiting     *)
(* caller in a later microtask, so "the promise is resolved" (pc           *)
(* "resolved") and "the caller has resumed" are two different states.      *)
(* A waitQueue holds resolve callbacks; the model stores in their place    *)
(* the id of the caller whose pending promise the callback resolves.       *)
(***************************************************************************)
EXTENDS Naturals, Sequences, FiniteSets

VARIABLES
    mutexes,            \* registry key -> Mutex object
    semaphores,         \* registry key -> Semaphore object
    dataChangeMutexes,  \* registry key -> DataChangeMutex object
    callers             \* caller id -> position of that asynchronous caller

vars == <<mutexes, semaphores, dataChangeMutexes, callers>>

-----------------------------------------------------------------------------
(* Bounds of the model.                                                    *)

NumMutexCallers == 3

(* Callers of the raw Mutex specification. *)
MutexCallers == 1..NumMutexCallers

NumSemCallers == 5

NumWithCallers == 4

(* Callers of the scoped helpers withMutex and withSemaphore. *)
WithCallers == 1..NumWithCallers

(* The registry entries the callers of the scoped helpers name. *)
WithMutexKeys == {"contacts"}
WithSemaphoreKeys == {"sms"}

NumDcmCallers == 3

(* Callers of the raw DataChangeMutex specification. *)
DcmCallers == 1..NumDcmCallers

(* The DataChangeMutex objects those callers use. *)
RawDcmKeys == {"contacts"}

(* Callers of the raw Semaphore specification. *)
SemCallers == 1..NumSemCallers

(* The Semaphore objects the callers of the raw Semaphore specification use. *)
RawSemaphoreKeys == {"sms", "db"}

(* The Mutex objects the callers of the raw Mutex specification use. *)
RawMutexKeys == {"contacts", "properties"}

-----------------------------------------------------------------------------
(* class Mutex                                                             *)

(* A freshly constructed Mutex: locked = false, waitQueue = []. *)
NewMutex == [locked |-> FALSE, waitQueue |-> <<>>]

(* Mutant: acquire that never looks at the locked flag. *)
Mutex_acquire_unchecked(m, p) ==
    [self |-> [m EXCEPT !.locked = TRUE], resolved |-> {p}]

(* Mutant: acquire that admits on a free Mutex without marking it held. *)
Mutex_acquire_nolock(m, p) ==
    IF ~m.locked
    THEN [self |-> m, resolved |-> {p}]
    ELSE [self |-> [m EXCEPT !.waitQueue = Append(@, p)], resolved |-> {}]

(* Mutex.acquire(), called by p on object m.  The result is the object     *)
(* after the call and the set of callers whose promise is now resolved.    *)
Mutex_acquire(m, p) ==
    IF ~m.locked
    THEN [self |-> [m EXCEPT !.locked = TRUE], resolved |-> {p}]
    ELSE [self |-> [m EXCEPT !.waitQueue = Append(@, p)], resolved |-> {}]

(* Mutant: release that takes the newest waiter (pop instead of shift). *)
Mutex_release_lifo(m) ==
    IF Len(m.waitQueue) > 0
    THEN [self |-> [m EXCEPT !.waitQueue = SubSeq(@, 1, Len(@) - 1)],
          resolved |-> {m.waitQueue[Len(m.waitQueue)]}]
    ELSE [self |-> [m EXCEPT !.locked = FALSE], resolved |-> {}]

(* Mutant: release that drops the earliest waiter without resolving it. *)
Mutex_release_drop(m) ==
    IF Len(m.waitQueue) > 0
    THEN [self |-> [m EXCEPT !.waitQueue = Tail(@)], resolved |-> {}]
    ELSE [self |-> [m EXCEPT !.locked = FALSE], resolved |-> {}]

(* Mutant: release that flips the locked flag when nobody waits. *)
Mutex_release_toggle(m) ==
    IF Len(m.waitQueue) > 0
    THEN [self |-> [m EXCEPT !.waitQueue = Tail(@)],
          resolved |-> {Head(m.waitQueue)}]
    ELSE [self |-> [m EXCEPT !.locked = ~@], resolved |-> {}]

(* Mutant: release that clears the locked flag also when it hands off. *)
Mutex_release_unlocking(m) ==
    IF Len(m.waitQueue) > 0
    THEN [self |-> [m EXCEPT !.waitQueue = Tail(@), !.locked = FALSE],
          resolved |-> {Head(m.waitQueue)}]
    ELSE [self |-> [m EXCEPT !.locked = FALSE], resolved |-> {}]

(* Mutex.release(). *)
Mutex_release(m) ==
    IF Len(m.waitQueue) > 0
    THEN [self |-> [m EXCEPT !.waitQueue = Tail(@)],
          resolved |-> {Head(m.waitQueue)}]
    ELSE [self |-> [m EXCEPT !.locked = FALSE], resolved |-> {}]

(* Mutex.isLocked(). *)
Mutex_isLocked(m) == m.locked

(* The keys of the mutexes registry. *)
MutexKeys ==
    {"workspace", "messages", "analytics", "templates", "contacts", "properties"}

(* export const mutexes = { ... new Mutex() ... } *)
InitMutexes == [k \in MutexKeys |-> NewMutex]

-----------------------------------------------------------------------------
(* class Semaphore                                                         *)

(* constructor(permits): this.permits = permits, waitQueue = []. *)
NewSemaphore(n) == [permits |-> n, waitQueue |-> <<>>]

(* Mutant: acquire that admits while permits >= 0. *)
Semaphore_acquire_offbyone(s, p) ==
    IF s.permits >= 0
    THEN [self |-> [s EXCEPT !.permits = IF @ > 0 THEN @ - 1 ELSE 0],
          resolved |-> {p}]
    ELSE [self |-> [s EXCEPT !.waitQueue = Append(@, p)], resolved |-> {}]

(* Semaphore.acquire(), called by p on object s. *)
Semaphore_acquire(s, p) ==
    IF s.permits > 0
    THEN [self |-> [s EXCEPT !.permits = @ - 1], resolved |-> {p}]
    ELSE [self |-> [s EXCEPT !.waitQueue = Append(@, p)], resolved |-> {}]

(* Mutant: release that takes the newest waiter (pop instead of shift). *)
Semaphore_release_lifo(s) ==
    IF Len(s.waitQueue) > 0
    THEN [self |-> [s EXCEPT !.waitQueue = SubSeq(@, 1, Len(@) - 1)],
          resolved |-> {s.waitQueue[Len(s.waitQueue)]}]
    ELSE [self |-> [s EXCEPT !.permits = @ + 1], resolved |-> {}]

(* Mutant: release that forgets to give the permit back. *)
Semaphore_release_leaky(s) ==
    IF Len(s.waitQueue) > 0
    THEN [self |-> [s EXCEPT !.waitQueue = Tail(@)],
          resolved |-> {Head(s.waitQueue)}]
    ELSE [self |-> s, resolved |-> {}]

(* Mutant: release that increments permits also when it hands off. *)
Semaphore_release_incrementing(s) ==
    IF Len(s.waitQueue) > 0
    THEN [self |-> [s EXCEPT !.waitQueue = Tail(@), !.permits = @ + 1],
          resolved |-> {Head(s.waitQueue)}]
    ELSE [self |-> [s EXCEPT !.permits = @ + 1], resolved |-> {}]

(* Semaphore.release(). *)
Semaphore_release(s) ==
    IF Len(s.waitQueue) > 0
    THEN [self |-> [s EXCEPT !.waitQueue = Tail(@)],
          resolved |-> {Head(s.waitQueue)}]
    ELSE [self |-> [s EXCEPT !.permits = @ + 1], resolved |-> {}]

(* Semaphore.availablePermits(). *)
Semaphore_availablePermits(s) == s.permits

(* The keys of the semaphores registry and the capacity each is built with. *)
SemaphoreKeys == {"api", "db", "sms"}

ApiPermits == 10
DbPermits == 5
SmsPermits == 3

Capacity(k) ==
    CASE k = "api" -> ApiPermits
      [] k = "db" -> DbPermits
      [] k = "sms" -> SmsPermits

(* export const semaphores = { api: new Semaphore(10), ... } *)
InitSemaphores == [k \in SemaphoreKeys |-> NewSemaphore(Capacity(k))]

-----------------------------------------------------------------------------
(* JavaScript values passed as data.  A value is described by what the     *)
(* comparison code can observe of it:                                      *)
(*   type   what typeof yields for it                                      *)
(*   id     its identity under ===: the value itself for a primitive, the  *)
(*          reference for an object                                        *)
(*   cls    "null", "primitive", "plain" (an object literal) or "array"    *)
(*   props  the own enumerable properties in insertion order, each a key   *)
(*          and a value; the keys of an array are its indices              *)

Primitive(type, text) ==
    [type |-> type, id |-> text, cls |-> "primitive", props |-> <<>>]

Prop(k, v) == [key |-> k, value |-> v]

PlainObject(ref, props) ==
    [type |-> "object", id |-> ref, cls |-> "plain", props |-> props]

JSArray(ref, props) ==
    [type |-> "object", id |-> ref, cls |-> "array", props |-> props]

JSNull == [type |-> "object", id |-> "null", cls |-> "null", props |-> <<>>]
Undefined == Primitive("undefined", "undefined")
Num1 == Primitive("number", "1")
Num2 == Primitive("number", "2")
Str1 == Primitive("string", "1")
(* { a: 1 } and a second object built the same way *)
ObjA == PlainObject("ref1", <<Prop("a", Num1)>>)
ObjAClone == PlainObject("ref2", <<Prop("a", Num1)>>)
(* { a: 1, b: 2 } and { b: 2, a: 1 } *)
ObjAB == PlainObject("ref3", <<Prop("a", Num1), Prop("b", Num2)>>)
ObjBA == PlainObject("ref4", <<Prop("b", Num2), Prop("a", Num1)>>)
(* { a: 1, b: undefined } *)
ObjAU == PlainObject("ref5", <<Prop("a", Num1), Prop("b", Undefined)>>)
(* [1] *)
Arr1 == JSArray("ref6", <<Prop("0", Num1)>>)

(* The values callers pass as newData. *)
Data == {JSNull, Num1, ObjA, ObjAClone}

TypeOf(v) == v.type

RECURSIVE JSON_stringify(_), JSON_members(_, _, _)

(* The comma-separated members of an object or array literal: a property   *)
(* whose value is undefined is left out of an object and written as null   *)
(* in an array.                                                            *)
JSON_members(props, array, first) ==
    IF props = <<>> THEN ""
    ELSE LET h == Head(props)
             text == IF array
                     THEN IF TypeOf(h.value) = "undefined"
                          THEN "null" ELSE JSON_stringify(h.value)
                     ELSE "\"" \o h.key \o "\":" \o JSON_stringify(h.value)
         IN  IF ~array /\ TypeOf(h.value) = "undefined"
             THEN JSON_members(Tail(props), array, first)
             ELSE (IF first THEN "" ELSE ",") \o text
                      \o JSON_members(Tail(props), array, FALSE)

(* JSON.stringify(v) *)
JSON_stringify(v) ==
    CASE v.cls = "null" -> "null"
      [] v.cls = "plain" -> "{" \o JSON_members(v.props, FALSE, TRUE) \o "}"
      [] v.cls = "array" -> "[" \o JSON_members(v.props, TRUE, TRUE) \o "]"
      [] v.cls = "primitive" ->
            IF TypeOf(v) = "string" THEN "\"" \o v.id \o "\"" ELSE v.id

(* a === b *)
StrictEquals(a, b) == a.type = b.type /\ a.id = b.id

(* function defaultCompare(a, b) *)
defaultCompare(a, b) ==
    IF a = JSNull THEN FALSE
    ELSE IF TypeOf(a) # TypeOf(b) THEN FALSE
    ELSE IF TypeOf(a) = "object" /\ a # JSNull
         THEN JSON_stringify(a) = JSON_stringify(b)
         ELSE StrictEquals(a, b)

(* The compareFunction arguments callers pass: none (the default           *)
(* parameter value defaultCompare) or the custom (a, b) => a === b.        *)
CompareFunctions == {"defaultCompare", "strictEquals"}

(* compareFunction(a, b) *)
Compare(f, a, b) ==
    IF f = "defaultCompare" THEN defaultCompare(a, b) ELSE StrictEquals(a, b)

-----------------------------------------------------------------------------
(* class DataChangeMutex extends Mutex                                     *)
(* Besides the fields of the class the object record carries two history   *)
(* fields:                                                                 *)
(*   recorded  whether an acquireIfChanged call has returned true since    *)
(*             the last releaseWithData(true), and the newData of the most *)
(*             recent such call                                            *)
(*   hist      "cleared" from a releaseWithData(true) until the next       *)
(*             acquireIfChanged call is issued or a waiting one resumes,   *)
(*             "rebased" once a waiting call has resumed after the clear   *)
(*             and until the next call is issued, "fresh" otherwise        *)

NothingRecorded == [has |-> FALSE, val |-> JSNull]

(* A freshly constructed DataChangeMutex: lastData = null. *)
NewDataChangeMutex ==
    [locked |-> FALSE, waitQueue |-> <<>>, lastData |-> JSNull,
     recorded |-> NothingRecorded, hist |-> "fresh"]

(* Mutant: acquireIfChanged that proceeds when the data is unchanged. *)
acquireIfChanged_proceeds_inverted(lastData, newData, f) ==
    \/ lastData = JSNull
    \/ Compare(f, lastData, newData)

(* acquireIfChanged(newData, compareFunction) up to its await: whether the *)
(* call goes on to `await this.acquire()` (otherwise it returns false).    *)
acquireIfChanged_proceeds(lastData, newData, f) ==
    \/ lastData = JSNull
    \/ ~Compare(f, lastData, newData)

(* Mutant: acquireIfChanged that does not record newData after its await. *)
acquireIfChanged_resumed_stale(d, newData) == d

(* acquireIfChanged after its await: `this.lastData = newData; return true`. *)
acquireIfChanged_resumed(d, newData) == [d EXCEPT !.lastData = newData]

(* Mutant: releaseWithData that ignores clearData. *)
releaseWithData_noclear(d, clearData) == Mutex_release(d)

(* releaseWithData(clearData). *)
releaseWithData(d, clearData) ==
    Mutex_release(IF clearData THEN [d EXCEPT !.lastData = JSNull] ELSE d)

(* getLastData(). *)
getLastData(d) == d.lastData

(* The keys of the dataChangeMutexes registry. *)
DataChangeMutexKeys ==
    {"workspace", "messages", "analytics", "templates", "contacts", "properties"}

(* export const dataChangeMutexes = { ... new DataChangeMutex<any>() ... } *)
InitDataChangeMutexes == [k \in DataChangeMutexKeys |-> NewDataChangeMutex]

-----------------------------------------------------------------------------
(* Callers.                                                                *)
(*   pc    "idle"      no call in progress                                 *)
(*         "pending"   awaiting a promise that is not resolved             *)
(*         "resolved"  awaiting a promise that is resolved; not yet resumed*)
(*         "holding"   resumed after acquire(), has not released           *)
(*   kind  which registry the call in progress uses                        *)
(*   key   the registry key of the call in progress                        *)
(*   ahead the callers that had called acquire() on the same object before *)
(*         this caller did and had not been granted it yet (history)       *)
(*   late  the waiters that had been handed the same object by a release() *)
(*         but had not resumed when this caller called acquire(), and      *)
(*         still have not (history, kept by the raw Mutex callers)         *)
(*   via   how the promise of the call in progress was resolved: "fast"    *)
(*         inside acquire(), "handoff" by another caller's release()       *)
(*   alone whether no other caller held or waited for the object when the  *)
(*         call in progress was issued (history, kept by withMutex calls)  *)
(*   newData   the newData of the acquireIfChanged call in progress that   *)
(*             awaits or has passed its acquire()                          *)
(*   sameAsLast      whether, when the call in progress was issued, its    *)
(*             compareFunction judged lastData and newData equal (history) *)
(*   sameAsRecorded  whether, when the call in progress was issued, an     *)
(*             earlier call had returned true since the last clear and the *)
(*             compareFunction judged the newData of the most recent such  *)
(*             call and this newData equal (history)                       *)
(*   ret   what the acquireIfChanged call in progress returned             *)
(*   fn    how the fn passed to a scoped helper ended                      *)
(*   out   what the promise returned by the scoped helper settled with     *)
(*   releases  the number of release() calls the call in progress made     *)
(* A scoped helper adds the positions                                      *)
(*         "inFn"      resumed after acquire(), awaiting fn()              *)
(*         "settled"   the helper's promise is settled; the caller has not *)
(*                     observed the outcome yet                            *)
(* and acquireIfChanged the position                                       *)
(*         "returned"  the call returned false; the caller has not         *)
(*                     observed it yet                                     *)

NoOutcome == [tag |-> "none", val |-> "none"]

(* The ways fn() can end: it returns a value or throws an error. *)
FnOutcomes ==
    {[tag |-> "return", val |-> "result"], [tag |-> "throw", val |-> "error"]}

IdleCaller ==
    [pc |-> "idle", kind |-> "none", key |-> "none", ahead |-> {},
     late |-> {}, via |-> "none", alone |-> FALSE,
     newData |-> JSNull, sameAsLast |-> FALSE, sameAsRecorded |-> FALSE,
     ret |-> "none",
     fn |-> NoOutcome, out |-> NoOutcome, releases |-> 0]

(* The callers whose acquire() on object (kind, k) is still unresolved. *)
Unresolved(kind, k) ==
    {q \in DOMAIN callers :
        callers[q].kind = kind /\ callers[q].key = k /\ callers[q].pc = "pending"}

(* The callers granted object (kind, k) that have not released it. *)
Admitted(kind, k) ==
    {q \in DOMAIN callers :
        /\ callers[q].kind = kind /\ callers[q].key = k
        /\ callers[q].pc \in {"resolved", "holding", "inFn"}}

(* The waiters a release() has handed object (kind, k) to and whose        *)
(* continuation has not run yet.                                           *)
NotResumed(kind, k) ==
    {q \in DOMAIN callers :
        /\ callers[q].kind = kind /\ callers[q].key = k
        /\ callers[q].pc = "resolved" /\ callers[q].via = "handoff"}

(* Whether no caller holds or waits for object (kind, k). *)
NobodyOn(kind, k) == Admitted(kind, k) \cup Unresolved(kind, k) = {}

(* The caller table after p starts awaiting acquire() on (kind, k). *)
AfterAcquire(p, kind, k, resolved) ==
    [callers EXCEPT ![p] =
        [@ EXCEPT !.pc = IF p \in resolved THEN "resolved" ELSE "pending",
                  !.kind = kind, !.key = k,
                  !.ahead = Unresolved(kind, k),
                  !.via = IF p \in resolved THEN "fast" ELSE "none"]]

(* The caller table after the callbacks of `resolved` have been invoked    *)
(* and caller p continues as the record np.                                *)
AfterRelease(p, np, resolved) ==
    [q \in DOMAIN callers |->
        IF q = p THEN np
        ELSE IF q \in resolved
             THEN [callers[q] EXCEPT !.pc = "resolved", !.via = "handoff",
                                     !.late = {}]
             ELSE [callers[q] EXCEPT !.ahead = @ \ resolved]]

(* The caller table after the continuation of p's await has started and   *)
(* p continues as the record np.                                           *)
AfterResume(p, np) ==
    [q \in DOMAIN callers |->
        IF q = p THEN np
        ELSE [callers[q] EXCEPT !.late = @ \ {p}]]

-----------------------------------------------------------------------------
(* Specification SpecMutex: callers use Mutex objects directly, each       *)
(* calling release() only while it holds the lock.                         *)

(* p calls `await mutex.acquire()` on mutexes[k]. *)
Acquire(p, k) ==
    /\ callers[p].pc = "idle"
    /\ LET r == Mutex_acquire(mutexes[k], p)
       IN  /\ mutexes' = [mutexes EXCEPT ![k] = r.self]
           /\ callers' = [AfterAcquire(p, "mutex", k, r.resolved)
                             EXCEPT ![p].late = NotResumed("mutex", k)]
    /\ UNCHANGED <<semaphores, dataChangeMutexes>>

(* The continuation of p's await runs. *)
Resume(p) ==
    /\ callers[p].pc = "resolved"
    /\ callers[p].kind = "mutex"
    /\ callers' = AfterResume(p, [callers[p] EXCEPT !.pc = "holding"])
    /\ UNCHANGED <<mutexes, semaphores, dataChangeMutexes>>

(* p, holding mutexes[k], calls mutex.release(). *)
Release(p) ==
    /\ callers[p].pc = "holding"
    /\ callers[p].kind = "mutex"
    /\ LET k == callers[p].key
           r == Mutex_release(mutexes[k])
       IN  /\ mutexes' = [mutexes EXCEPT ![k] = r.self]
           /\ callers' = AfterRelease(p, IdleCaller, r.resolved)
    /\ UNCHANGED <<semaphores, dataChangeMutexes>>

InitMutex ==
    /\ mutexes = InitMutexes
    /\ semaphores = <<>>
    /\ dataChangeMutexes = <<>>
    /\ callers = [p \in MutexCallers |-> IdleCaller]

NextMutex ==
    \E p \in MutexCallers :
        \/ \E k \in RawMutexKeys : Acquire(p, k)
        \/ Resume(p)
        \/ Release(p)

SpecMutex == InitMutex /\ [][NextMutex]_vars

(* The microtask queue runs every continuation whose promise is resolved,  *)
(* and the claims about waiting assume that every holder releases.         *)
FairSpecMutex ==
    /\ SpecMutex
    /\ \A p \in MutexCallers : WF_vars(Resume(p)) /\ WF_vars(Release(p))

-----------------------------------------------------------------------------
(* C1: Mutex mutual exclusion.  On every Mutex, in every reachable state   *)
(* of disciplined use, at most one caller has been admitted and has not    *)
(* yet released.                                                           *)
C1_MutualExclusion ==
    \A k \in MutexKeys : Cardinality(Admitted("mutex", k)) <= 1

(* A caller holds a Mutex while two other callers wait for the same one. *)
C1_Witness ==
    \E k \in MutexKeys :
        /\ \E p \in Admitted("mutex", k) : callers[p].pc = "holding"
        /\ Cardinality(Unresolved("mutex", k)) >= 2

(* C2: Mutex FIFO admission.  Callers are admitted in the order in which   *)
(* they called acquire(): nobody is admitted while a caller that called    *)
(* earlier is still waiting; acquire() on a Mutex that nobody holds or     *)
(* waits for admits at once; a release() with waiters admits exactly one   *)
(* of them and a step that is not a release() admits no waiter; and an     *)
(* acquire() issued while a handed-off waiter has not resumed yet waits.   *)
C2_NobodyOvertakes ==
    \A p \in DOMAIN callers :
        callers[p].pc \in {"resolved", "holding"} => callers[p].ahead = {}

C2_AdmissionSteps ==
    \A k \in MutexKeys :
        LET woken == {q \in Unresolved("mutex", k) : callers'[q].pc = "resolved"}
            releasing == {p \in Admitted("mutex", k) : callers'[p].pc = "idle"}
            calling == {p \in DOMAIN callers :
                          /\ callers[p].pc = "idle" /\ callers'[p].pc # "idle"
                          /\ callers'[p].key = k}
        IN  /\ Cardinality(woken) =
                  IF releasing # {} /\ Unresolved("mutex", k) # {} THEN 1 ELSE 0
            /\ \A p \in calling :
                  /\ Admitted("mutex", k) \cup Unresolved("mutex", k) = {}
                        => callers'[p].pc = "resolved"
                  /\ NotResumed("mutex", k) # {} => callers'[p].pc = "pending"

(* C2: Mutex FIFO admission.  In every state nobody admitted has an        *)
(* earlier caller still waiting, and every step admits as the queue says:  *)
(* at once on a free Mutex, one waiter per release(), none otherwise.      *)
C2_FifoAdmission == []C2_NobodyOvertakes /\ [][C2_AdmissionSteps]_vars

(* A waiter has been handed the lock and has not resumed; behind it wait   *)
(* an earlier caller and a caller that called acquire() after the handoff. *)
C2_Witness ==
    \E p, q, s \in DOMAIN callers :
        /\ callers[q].pc = "resolved" /\ callers[q].via = "handoff"
        /\ callers[s].pc = "pending" /\ callers[p].pc = "pending"
        /\ callers[q].key = callers[p].key /\ callers[s].key = callers[p].key
        /\ q \in callers[p].late
        /\ s \in callers[p].ahead

(* C3: Mutex without starvation.  When every admitted caller resumes and   *)
(* releases, every caller waiting in acquire() is eventually admitted and  *)
(* resumes, whatever the other callers keep doing.                         *)
C3_NoStarvation ==
    \A p \in MutexCallers :
        (callers[p].pc = "pending") ~> (callers[p].pc = "holding")

(* A caller that had to wait behind another waiter holds the lock. *)
C3_Witness ==
    \E p \in DOMAIN callers :
        /\ callers[p].pc = "holding" /\ callers[p].via = "handoff"
        /\ \E q \in DOMAIN callers :
              callers[q].pc = "pending" /\ callers[q].key = callers[p].key

-----------------------------------------------------------------------------
(* Specification SpecSem: callers use the Semaphore objects directly, each *)
(* calling release() only for a permit it was granted and still has.       *)

(* p calls `await semaphore.acquire()` on semaphores[k]. *)
SemAcquire(p, k) ==
    /\ callers[p].pc = "idle"
    /\ LET r == Semaphore_acquire(semaphores[k], p)
       IN  /\ semaphores' = [semaphores EXCEPT ![k] = r.self]
           /\ callers' = AfterAcquire(p, "semaphore", k, r.resolved)
    /\ UNCHANGED <<mutexes, dataChangeMutexes>>

(* The continuation of p's await runs. *)
SemResume(p) ==
    /\ callers[p].pc = "resolved"
    /\ callers[p].kind = "semaphore"
    /\ callers' = AfterResume(p, [callers[p] EXCEPT !.pc = "holding"])
    /\ UNCHANGED <<mutexes, semaphores, dataChangeMutexes>>

(* p, having a permit of semaphores[k], calls semaphore.release(). *)
SemRelease(p) ==
    /\ callers[p].pc = "holding"
    /\ callers[p].kind = "semaphore"
    /\ LET k == callers[p].key
           r == Semaphore_release(semaphores[k])
       IN  /\ semaphores' = [semaphores EXCEPT ![k] = r.self]
           /\ callers' = AfterRelease(p, IdleCaller, r.resolved)
    /\ UNCHANGED <<mutexes, dataChangeMutexes>>

InitSem ==
    /\ mutexes = <<>>
    /\ semaphores = InitSemaphores
    /\ dataChangeMutexes = <<>>
    /\ callers = [p \in SemCallers |-> IdleCaller]

NextSem ==
    \E p \in SemCallers :
        \/ \E k \in RawSemaphoreKeys : SemAcquire(p, k)
        \/ SemResume(p)
        \/ SemRelease(p)

SpecSem == InitSem /\ [][NextSem]_vars

-----------------------------------------------------------------------------
(* Specification SpecWith: callers go through withMutex(key, fn) and       *)
(* withSemaphore(key, fn).                                                 *)

(* Mutant: release after `await fn()` instead of in a finally block. *)
withMutex_exit_nofinally(m, outcome) ==
    IF outcome.tag = "throw"
    THEN [self |-> m, resolved |-> {}, releases |-> 0, settle |-> outcome]
    ELSE [self |-> Mutex_release(m).self, resolved |-> Mutex_release(m).resolved,
          releases |-> 1, settle |-> outcome]

(* withMutex: `try { return await fn(); } finally { mutex.release(); }`    *)
(* once fn() has ended with `outcome`: the object after the finally block, *)
(* the callbacks it invoked, the number of release() calls and what the    *)
(* promise returned by withMutex settles with.                             *)
withMutex_exit(m, outcome) ==
    [self |-> Mutex_release(m).self, resolved |-> Mutex_release(m).resolved,
     releases |-> 1, settle |-> outcome]

(* Mutant: a catch block that hides the error of fn. *)
withSemaphore_exit_swallow(s, outcome) ==
    [self |-> Semaphore_release(s).self,
     resolved |-> Semaphore_release(s).resolved,
     releases |-> 1,
     settle |-> IF outcome.tag = "throw"
                THEN [tag |-> "return", val |-> "undefined"] ELSE outcome]

(* withSemaphore: `try { return await fn(); } finally { semaphore.release(); }` *)
withSemaphore_exit(s, outcome) ==
    [self |-> Semaphore_release(s).self,
     resolved |-> Semaphore_release(s).resolved,
     releases |-> 1, settle |-> outcome]

(* p calls withMutex(k, fn): `await mutex.acquire()`. *)
WithMutexCall(p, k) ==
    /\ callers[p].pc = "idle"
    /\ LET r == Mutex_acquire(mutexes[k], p)
       IN  /\ mutexes' = [mutexes EXCEPT ![k] = r.self]
           /\ callers' = [AfterAcquire(p, "mutex", k, r.resolved)
                             EXCEPT ![p].alone = NobodyOn("mutex", k)]
    /\ UNCHANGED <<semaphores, dataChangeMutexes>>

(* p calls withSemaphore(k, fn): `await semaphore.acquire()`. *)
WithSemaphoreCall(p, k) ==
    /\ callers[p].pc = "idle"
    /\ LET r == Semaphore_acquire(semaphores[k], p)
       IN  /\ semaphores' = [semaphores EXCEPT ![k] = r.self]
           /\ callers' = AfterAcquire(p, "semaphore", k, r.resolved)
    /\ UNCHANGED <<mutexes, dataChangeMutexes>>

(* p resumes from the await in either helper and calls fn(). *)
WithEnter(p) ==
    /\ callers[p].pc = "resolved"
    /\ callers' = AfterResume(p, [callers[p] EXCEPT !.pc = "inFn",
                                                     !.via = "none"])
    /\ UNCHANGED <<mutexes, semaphores, dataChangeMutexes>>

(* The fn of p's withMutex call ends; the finally block runs and the       *)
(* promise returned by withMutex settles.                                  *)
WithMutexExit(p, outcome) ==
    /\ callers[p].pc = "inFn"
    /\ callers[p].kind = "mutex"
    /\ LET k == callers[p].key
           r == withMutex_exit(mutexes[k], outcome)
       IN  /\ mutexes' = [mutexes EXCEPT ![k] = r.self]
           /\ callers' = AfterRelease(p,
                  [callers[p] EXCEPT !.pc = "settled", !.fn = outcome,
                                     !.out = r.settle,
                                     !.releases = @ + r.releases],
                  r.resolved)
    /\ UNCHANGED <<semaphores, dataChangeMutexes>>

(* The fn of p's withSemaphore call ends. *)
WithSemaphoreExit(p, outcome) ==
    /\ callers[p].pc = "inFn"
    /\ callers[p].kind = "semaphore"
    /\ LET k == callers[p].key
           r == withSemaphore_exit(semaphores[k], outcome)
       IN  /\ semaphores' = [semaphores EXCEPT ![k] = r.self]
           /\ callers' = AfterRelease(p,
                  [callers[p] EXCEPT !.pc = "settled", !.fn = outcome,
                                     !.out = r.settle,
                                     !.releases = @ + r.releases],
                  r.resolved)
    /\ UNCHANGED <<mutexes, dataChangeMutexes>>

(* The code awaiting p's helper call observes the result or the error. *)
Observe(p) ==
    /\ callers[p].pc = "settled"
    /\ callers' = [callers EXCEPT ![p] = IdleCaller]
    /\ UNCHANGED <<mutexes, semaphores, dataChangeMutexes>>

InitWith ==
    /\ mutexes = InitMutexes
    /\ semaphores = InitSemaphores
    /\ dataChangeMutexes = <<>>
    /\ callers = [p \in WithCallers |-> IdleCaller]

NextWith ==
    \E p \in WithCallers :
        \/ \E k \in WithMutexKeys : WithMutexCall(p, k)
        \/ \E k \in WithSemaphoreKeys : WithSemaphoreCall(p, k)
        \/ WithEnter(p)
        \/ \E outcome \in FnOutcomes : WithMutexExit(p, outcome)
        \/ \E outcome \in FnOutcomes : WithSemaphoreExit(p, outcome)
        \/ Observe(p)

SpecWith == InitWith /\ [][NextWith]_vars

-----------------------------------------------------------------------------
(* Specification SpecDcm: callers use DataChangeMutex objects directly:    *)
(* acquireIfChanged, and releaseWithData by the caller that holds the lock. *)

(* p calls `await m.acquireIfChanged(newData, f)` on dataChangeMutexes[k]: *)
(* the call either returns false or goes on to `await this.acquire()`.     *)
AcquireIfChanged(p, k, newData, f) ==
    /\ callers[p].pc = "idle"
    /\ LET d == dataChangeMutexes[k]
           r == Mutex_acquire(d, p)
           sameAsLast == Compare(f, d.lastData, newData)
           sameAsRecorded ==
               d.recorded.has /\ Compare(f, d.recorded.val, newData)
       IN  IF acquireIfChanged_proceeds(d.lastData, newData, f)
           THEN /\ dataChangeMutexes' =
                      [dataChangeMutexes EXCEPT ![k] = [r.self EXCEPT !.hist = "fresh"]]
                /\ callers' = [AfterAcquire(p, "dcm", k, r.resolved)
                                  EXCEPT ![p].newData = newData,
                                         ![p].sameAsLast = sameAsLast,
                                         ![p].sameAsRecorded = sameAsRecorded]
           ELSE /\ dataChangeMutexes' =
                      [dataChangeMutexes EXCEPT ![k].hist = "fresh"]
                /\ callers' = [callers EXCEPT ![p] =
                      [@ EXCEPT !.pc = "returned", !.kind = "dcm", !.key = k,
                                !.sameAsLast = sameAsLast,
                                !.sameAsRecorded = sameAsRecorded,
                                !.ret = "false"]]
    /\ UNCHANGED <<mutexes, semaphores>>

(* p resumes from `await this.acquire()`, records newData and returns true. *)
DcmResume(p) ==
    /\ callers[p].pc = "resolved"
    /\ callers[p].kind = "dcm"
    /\ LET k == callers[p].key
           d == acquireIfChanged_resumed(dataChangeMutexes[k], callers[p].newData)
       IN  dataChangeMutexes' = [dataChangeMutexes EXCEPT ![k] =
               [d EXCEPT !.recorded = [has |-> TRUE, val |-> callers[p].newData],
                         !.hist = IF @ = "cleared" THEN "rebased" ELSE @]]
    /\ callers' = AfterResume(p, [callers[p] EXCEPT !.pc = "holding",
                                                     !.sameAsLast = FALSE,
                                                     !.sameAsRecorded = FALSE,
                                                     !.ret = "true"])
    /\ UNCHANGED <<mutexes, semaphores>>

(* p observes that its acquireIfChanged call returned false. *)
DcmObserve(p) ==
    /\ callers[p].pc = "returned"
    /\ callers' = [callers EXCEPT ![p] = IdleCaller]
    /\ UNCHANGED <<mutexes, semaphores, dataChangeMutexes>>

(* p, holding dataChangeMutexes[k], calls m.releaseWithData(clearData). *)
ReleaseWithData(p, clearData) ==
    /\ callers[p].pc = "holding"
    /\ callers[p].kind = "dcm"
    /\ LET k == callers[p].key
           r == releaseWithData(dataChangeMutexes[k], clearData)
       IN  /\ dataChangeMutexes' = [dataChangeMutexes EXCEPT ![k] =
                  IF clearData
                  THEN [r.self EXCEPT !.recorded = NothingRecorded,
                                      !.hist = "cleared"]
                  ELSE r.self]
           /\ callers' = AfterRelease(p, IdleCaller, r.resolved)
    /\ UNCHANGED <<mutexes, semaphores>>

InitDcm ==
    /\ mutexes = <<>>
    /\ semaphores = <<>>
    /\ dataChangeMutexes = InitDataChangeMutexes
    /\ callers = [p \in DcmCallers |-> IdleCaller]

NextDcm ==
    \E p \in DcmCallers :
        \/ \E k \in RawDcmKeys, newData \in Data, f \in CompareFunctions :
              AcquireIfChanged(p, k, newData, f)
        \/ DcmResume(p)
        \/ DcmObserve(p)
        \/ \E clearData \in BOOLEAN : ReleaseWithData(p, clearData)

SpecDcm == InitDcm /\ [][NextDcm]_vars

-----------------------------------------------------------------------------
(* C4: Semaphore admission bound.  On every Semaphore of the registry, in  *)
(* every reachable state of disciplined use, the number of callers         *)
(* admitted and not yet released is at most the capacity the Semaphore     *)
(* was constructed with (api 10, db 5, sms 3).                             *)
C4_AdmissionBound ==
    \A k \in SemaphoreKeys :
        Cardinality(Admitted("semaphore", k)) <= Capacity(k)

(* The sms semaphore is saturated while further callers wait for it. *)
C4_Witness ==
    /\ Cardinality(Admitted("semaphore", "sms")) = SmsPermits
    /\ Cardinality(Unresolved("semaphore", "sms")) >= 2

(* C5: Semaphore saturation and FIFO admission.  A caller waits only while *)
(* the Semaphore is saturated, and availablePermits() reads 0 then;        *)
(* acquire() is admitted at once exactly when fewer than C callers are     *)
(* admitted; a release() with waiters admits exactly one of them, no other *)
(* step admits a waiter; and nobody is admitted while a caller that called *)
(* acquire() earlier still waits.                                          *)
C5_WaitOnlyWhenSaturated ==
    \A k \in SemaphoreKeys :
        Unresolved("semaphore", k) # {} =>
            /\ Semaphore_availablePermits(semaphores[k]) = 0
            /\ Cardinality(Admitted("semaphore", k)) = Capacity(k)

C5_InRequestOrder ==
    \A p \in DOMAIN callers :
        callers[p].pc \in {"resolved", "holding"} => callers[p].ahead = {}

C5_AdmissionSteps ==
    \A k \in SemaphoreKeys :
        LET woken == {q \in Unresolved("semaphore", k) :
                        callers'[q].pc = "resolved"}
            releasing == {p \in Admitted("semaphore", k) :
                            callers'[p].pc = "idle"}
            calling == {p \in DOMAIN callers :
                          /\ callers[p].pc = "idle" /\ callers'[p].pc # "idle"
                          /\ callers'[p].key = k}
        IN  /\ Cardinality(woken) =
                  IF releasing # {} /\ Unresolved("semaphore", k) # {}
                  THEN 1 ELSE 0
            /\ \A p \in calling :
                  callers'[p].pc =
                      IF Cardinality(Admitted("semaphore", k)) < Capacity(k)
                      THEN "resolved" ELSE "pending"

(* C5: Semaphore saturation and FIFO admission.  In every state a caller   *)
(* waits only while all C permits are out and nobody admitted has an       *)
(* earlier caller still waiting; every step admits at once exactly below   *)
(* C admitted callers and one waiter per release().                        *)
C5_SaturationAndFifo ==
    /\ [](C5_WaitOnlyWhenSaturated /\ C5_InRequestOrder)
    /\ [][C5_AdmissionSteps]_vars

(* Five requests on sms: the fourth and the fifth have both been admitted  *)
(* by a release() while one of the first three still has its permit.       *)
C5_Witness ==
    \E p, q, r \in Admitted("semaphore", "sms") :
        /\ p # q
        /\ callers[p].via = "handoff" /\ callers[q].via = "handoff"
        /\ callers[r].via = "fast"

-----------------------------------------------------------------------------
(* The step in which the fn of p's scoped call ends and the promise the    *)
(* helper returned settles.                                                *)
ExitStep(p) == callers[p].pc = "inFn" /\ callers'[p].pc = "settled"

(* C6 as stated: when withMutex(key, fn) was called while no other caller  *)
(* held or waited for the lock and fn throws, the lock reads unlocked at   *)
(* the moment the promise returned by withMutex rejects.                   *)
C6_FreeWhenRejected ==
    [][\A p \in DOMAIN callers :
          /\ ExitStep(p) /\ callers[p].kind = "mutex" /\ callers[p].alone
          /\ callers'[p].out.tag = "throw"
          => ~Mutex_isLocked(mutexes'[callers[p].key])]_vars

(* C6 as amended: when withMutex(key, fn) was called while no other caller *)
(* held or waited for the lock, fn throws, and no other caller has called  *)
(* acquire() on that lock in the meantime, the lock reads unlocked at the  *)
(* moment the promise returned by withMutex rejects.                       *)
C6_FreeWhenRejectedUncontended ==
    [][\A p \in DOMAIN callers :
          /\ ExitStep(p) /\ callers[p].kind = "mutex" /\ callers[p].alone
          /\ callers'[p].out.tag = "throw"
          /\ Unresolved("mutex", callers[p].key) = {}
          => ~Mutex_isLocked(mutexes'[callers[p].key])]_vars

(* withMutex('contacts', fn) was called on the free lock, fn threw, the    *)
(* rejection has not been observed yet and the lock is free.               *)
C6_Witness ==
    \E p \in DOMAIN callers :
        /\ callers[p].pc = "settled" /\ callers[p].kind = "mutex"
        /\ callers[p].key = "contacts" /\ callers[p].alone
        /\ callers[p].out.tag = "throw"
        /\ ~Mutex_isLocked(mutexes["contacts"])
        /\ NobodyOn("mutex", "contacts")

(* C7: the scoped helpers release exactly once and before the outcome is   *)
(* delivered.  Until fn ends the helper has not called release(); when the *)
(* promise of withMutex or withSemaphore is settled, and so before its     *)
(* caller observes anything, release() has been called exactly once,       *)
(* whether fn returned or threw, and the promise carries the result or the *)
(* error of fn unchanged; and the release() of a scoped call, also of one  *)
(* whose fn threw, admits exactly one of the callers queued behind it.     *)
C7_ReleasedOnceThenSettled ==
    \A p \in DOMAIN callers :
        /\ callers[p].pc \in {"pending", "resolved", "inFn"}
              => callers[p].releases = 0 /\ callers[p].out = NoOutcome
        /\ callers[p].pc = "settled"
              => /\ callers[p].releases = 1
                 /\ callers[p].fn \in FnOutcomes
                 /\ callers[p].out = callers[p].fn

C7_ExitAdmitsWaiter ==
    \A p \in DOMAIN callers :
        ExitStep(p) =>
            LET waiting == Unresolved(callers[p].kind, callers[p].key)
                woken == {q \in waiting : callers'[q].pc = "resolved"}
            IN  Cardinality(woken) = IF waiting = {} THEN 0 ELSE 1

(* C7: the scoped helpers release exactly once, before the promise is      *)
(* settled with the unchanged outcome of fn, and that release() admits     *)
(* exactly one queued caller when there is one.                            *)
C7_ScopedRelease ==
    []C7_ReleasedOnceThenSettled /\ [][C7_ExitAdmitsWaiter]_vars

(* A withSemaphore call whose fn threw has released and rejected, and a    *)
(* caller that was queued on the same semaphore has been handed a permit.  *)
C7_Witness ==
    \E p, q \in DOMAIN callers :
        /\ callers[p].pc = "settled" /\ callers[p].kind = "semaphore"
        /\ callers[p].out.tag = "throw" /\ callers[p].releases = 1
        /\ callers[q].kind = "semaphore" /\ callers[q].key = callers[p].key
        /\ callers[q].pc = "resolved" /\ callers[q].via = "handoff"

-----------------------------------------------------------------------------
(* Steps of the raw DataChangeMutex callers, recognised from the two       *)
(* states of a step.                                                       *)

(* p issues an acquireIfChanged call. *)
DcmCallStep(p) ==
    callers[p].pc = "idle" /\ callers'[p].pc # "idle" /\ callers'[p].kind = "dcm"

(* p calls releaseWithData. *)
DcmReleaseStep(p) ==
    callers[p].kind = "dcm" /\ callers[p].pc = "holding" /\ callers'[p].pc = "idle"

(* C8 as stated: once an acquireIfChanged(X) call has returned true and    *)
(* the baseline has not been cleared since, a further acquireIfChanged(X') *)
(* with X' equal to X under the comparison returns false without           *)
(* suspending and leaves locked, waitQueue and lastData as they were.      *)
C8_DeclineLeavesLockAlone ==
    [][\A p \in DOMAIN callers :
          DcmCallStep(p) =>
              LET k == callers'[p].key
                  d == dataChangeMutexes[k]
              IN  callers'[p].sameAsRecorded
                  => /\ callers'[p].pc = "returned"
                     /\ callers'[p].ret = "false"
                     /\ dataChangeMutexes'[k].locked = d.locked
                     /\ dataChangeMutexes'[k].waitQueue = d.waitQueue
                     /\ dataChangeMutexes'[k].lastData = d.lastData]_vars

(* C9: the change gate proceeds on an absent or changed baseline.  A call  *)
(* of acquireIfChanged returns false at once exactly when lastData is not  *)
(* null and the comparison judges lastData and newData equal; otherwise it *)
(* has not returned while it waits, it is admitted in its FIFO turn, and   *)
(* once it has returned true the caller is the only holder of the lock and *)
(* getLastData() equals its newData.                                       *)
C9_DecidedAtCall ==
    \A p \in DOMAIN callers :
        DcmCallStep(p) =>
            LET d == dataChangeMutexes[callers'[p].key]
                proceed ==
                    \/ getLastData(d) = JSNull
                    \/ ~callers'[p].sameAsLast
            IN  IF proceed
                THEN callers'[p].pc \in {"pending", "resolved"}
                     /\ callers'[p].ret = "none"
                ELSE callers'[p].pc = "returned" /\ callers'[p].ret = "false"

C9_TrueMeansHolding ==
    \A p \in DOMAIN callers :
        callers[p].kind = "dcm" =>
            LET d == dataChangeMutexes[callers[p].key]
            IN  /\ callers[p].pc \in {"pending", "resolved"}
                      => callers[p].ret = "none"
                /\ callers[p].pc \in {"resolved", "holding"}
                      => callers[p].ahead = {}
                /\ callers[p].ret = "true"
                      => /\ callers[p].pc = "holding"
                         /\ Admitted("dcm", callers[p].key) = {p}
                         /\ Mutex_isLocked(d)
                         /\ getLastData(d) = callers[p].newData
                /\ callers[p].pc = "holding" => callers[p].ret = "true"

C10_Releases(p) ==
    LET k == callers[p].key
        waiting == Unresolved("dcm", k)
        woken == {q \in waiting : callers'[q].pc = "resolved"}
    IN  IF waiting = {}
        THEN ~Mutex_isLocked(dataChangeMutexes'[k])
        ELSE Mutex_isLocked(dataChangeMutexes'[k]) /\ Cardinality(woken) = 1

(* releaseWithData(true) leaves getLastData() null; releaseWithData(false) *)
(* and releaseWithData() leave lastData unchanged.                         *)
C10_ReleaseStep ==
    \A p \in DOMAIN callers :
        DcmReleaseStep(p) =>
            LET k == callers[p].key
            IN  /\ dataChangeMutexes[k].hist # "cleared"
                /\ C10_Releases(p)
                /\ IF dataChangeMutexes'[k].hist = "cleared"
                   THEN getLastData(dataChangeMutexes'[k]) = JSNull
                   ELSE getLastData(dataChangeMutexes'[k])
                            = getLastData(dataChangeMutexes[k])

(* C10 as stated: after releaseWithData(true) getLastData() is null and    *)
(* the next acquireIfChanged(X) to be called returns true for every X;     *)
(* releaseWithData(false) releases and leaves lastData unchanged.          *)
C10_ClearForcesNextCall ==
    [][/\ C10_ReleaseStep
       /\ \A p \in DOMAIN callers :
             /\ DcmCallStep(p)
             /\ dataChangeMutexes[callers'[p].key].hist \in {"cleared", "rebased"}
             => callers'[p].pc \in {"pending", "resolved"}]_vars

(* C10 as amended: after releaseWithData(true) getLastData() is null and   *)
(* the next acquireIfChanged(X) to be called returns true for every X,     *)
(* provided no acquireIfChanged call that was waiting for the lock has     *)
(* resumed since the clear (such a call records its own newData);          *)
(* releaseWithData(false) releases and leaves lastData unchanged.          *)
C10_ClearForcesNextCallUnlessRebased ==
    [][/\ C10_ReleaseStep
       /\ \A p \in DOMAIN callers :
             /\ DcmCallStep(p)
             /\ dataChangeMutexes[callers'[p].key].hist = "cleared"
             => callers'[p].pc \in {"pending", "resolved"}]_vars

(* A holder has called releaseWithData(true) with nobody waiting: the     *)
(* baseline is absent and the lock is free.                                *)
C10_Witness ==
    \E k \in RawDcmKeys :
        /\ dataChangeMutexes[k].hist = "cleared"
        /\ getLastData(dataChangeMutexes[k]) = JSNull
        /\ ~Mutex_isLocked(dataChangeMutexes[k])
        /\ \A p \in DOMAIN callers : callers[p].pc \in {"idle", "returned"}

-----------------------------------------------------------------------------
(* Specification SpecWithDcm: callers go through                           *)
(* withDataChangeMutex(key, data, fn, compareFunction).  The call first    *)
(* awaits mutex.acquireIfChanged(data, compareFunction) (the actions       *)
(* AcquireIfChanged and DcmResume above, with "holding" the position where *)
(* acquireIfChanged has returned true and the helper has not resumed yet). *)

NumWithDcmCallers == 3

(* Callers of withDataChangeMutex. *)
WithDcmCallers == 1..NumWithDcmCallers

(* The registry entries those callers name. *)
WithDcmKeys == {"contacts"}

(* `return null`, what the helper's promise resolves to when the gate      *)
(* declined.                                                               *)
NullResult == [tag |-> "return", val |-> "null"]

(* Mutant: the declined path also runs the finally block. *)
withDataChangeMutex_skip_releasing(d) ==
    [self |-> releaseWithData(d, FALSE).self,
     resolved |-> releaseWithData(d, FALSE).resolved,
     releases |-> 1, settle |-> NullResult]

(* withDataChangeMutex: `if (!shouldProceed) { return null; }`. *)
withDataChangeMutex_skip(d) ==
    [self |-> d, resolved |-> {}, releases |-> 0, settle |-> NullResult]

(* withDataChangeMutex:                                                    *)
(* `try { return await fn(); } finally { mutex.releaseWithData(); }`       *)
(* once fn() has ended with `outcome`; clearData takes its default, false. *)
withDataChangeMutex_exit(d, outcome) ==
    [self |-> releaseWithData(d, FALSE).self,
     resolved |-> releaseWithData(d, FALSE).resolved,
     releases |-> 1, settle |-> outcome]

(* p's helper resumes with shouldProceed = true and calls fn(). *)
WithDcmEnter(p) ==
    /\ callers[p].pc = "holding"
    /\ callers[p].kind = "dcm"
    /\ callers' = [callers EXCEPT ![p].pc = "inFn", ![p].via = "none"]
    /\ UNCHANGED <<mutexes, semaphores, dataChangeMutexes>>

(* p's helper resumes with shouldProceed = false and returns null. *)
WithDcmSkip(p) ==
    /\ callers[p].pc = "returned"
    /\ callers[p].kind = "dcm"
    /\ LET k == callers[p].key
           r == withDataChangeMutex_skip(dataChangeMutexes[k])
       IN  /\ dataChangeMutexes' = [dataChangeMutexes EXCEPT ![k] = r.self]
           /\ callers' = AfterRelease(p,
                  [callers[p] EXCEPT !.pc = "settled", !.out = r.settle,
                                     !.sameAsLast = FALSE,
                                     !.sameAsRecorded = FALSE,
                                     !.releases = @ + r.releases],
                  r.resolved)
    /\ UNCHANGED <<mutexes, semaphores>>

(* The fn of p's withDataChangeMutex call ends; the finally block runs and *)
(* the promise returned by the helper settles.                             *)
WithDcmExit(p, outcome) ==
    /\ callers[p].pc = "inFn"
    /\ callers[p].kind = "dcm"
    /\ LET k == callers[p].key
           r == withDataChangeMutex_exit(dataChangeMutexes[k], outcome)
       IN  /\ dataChangeMutexes' = [dataChangeMutexes EXCEPT ![k] = r.self]
           /\ callers' = AfterRelease(p,
                  [callers[p] EXCEPT !.pc = "settled", !.fn = outcome,
                                     !.out = r.settle,
                                     !.newData = IF outcome.tag = "throw"
                                                 THEN @ ELSE JSNull,
                                     !.releases = @ + r.releases],
                  r.resolved)
    /\ UNCHANGED <<mutexes, semaphores>>

InitWithDcm ==
    /\ mutexes = <<>>
    /\ semaphores = <<>>
    /\ dataChangeMutexes = InitDataChangeMutexes
    /\ callers = [p \in WithDcmCallers |-> IdleCaller]

NextWithDcm ==
    \E p \in WithDcmCallers :
        \/ \E k \in WithDcmKeys, data \in Data, f \in CompareFunctions :
              AcquireIfChanged(p, k, data, f)
        \/ DcmResume(p)
        \/ WithDcmEnter(p)
        \/ WithDcmSkip(p)
        \/ \E outcome \in FnOutcomes : WithDcmExit(p, outcome)
        \/ Observe(p)

SpecWithDcm == InitWithDcm /\ [][NextWithDcm]_vars

-----------------------------------------------------------------------------
(* Whether p's withDataChangeMutex call settles or has settled as skipped, *)
(* or as a call that ran fn.                                               *)
C11_SettledRight ==
    \A p \in DOMAIN callers :
        callers[p].kind = "dcm" =>
            /\ callers[p].pc \in {"pending", "resolved", "holding", "returned"}
                  => /\ callers[p].fn = NoOutcome /\ callers[p].out = NoOutcome
                     /\ callers[p].releases = 0
            /\ callers[p].pc = "inFn"
                  => /\ callers[p].ret = "true" /\ callers[p].out = NoOutcome
                     /\ callers[p].releases = 0
                     /\ Admitted("dcm", callers[p].key) = {p}
            /\ callers[p].pc = "settled"
                  => IF callers[p].ret = "true"
                     THEN /\ callers[p].fn \in FnOutcomes
                          /\ callers[p].out = callers[p].fn
                          /\ callers[p].releases = 1
                     ELSE /\ callers[p].ret = "false"
                          /\ callers[p].fn = NoOutcome
                          /\ callers[p].out = NullResult
                          /\ callers[p].releases = 0

(* The steps of a withDataChangeMutex call: a gate that declines and the   *)
(* `return null` after it leave the lock and the baseline alone; a gate    *)
(* that returned true is followed by fn(); the end of fn releases.         *)
C11_HelperSteps ==
    \A p \in DOMAIN callers :
        LET k == callers'[p].key
            d == dataChangeMutexes[k]
            untouched ==
                /\ dataChangeMutexes'[k].locked = d.locked
                /\ dataChangeMutexes'[k].waitQueue = d.waitQueue
                /\ dataChangeMutexes'[k].lastData = d.lastData
                /\ \A q \in DOMAIN callers \ {p} : callers'[q] = callers[q]
        IN  /\ DcmCallStep(p) /\ callers'[p].pc = "returned" => untouched
            /\ callers[p].pc = "returned" /\ callers'[p] # callers[p]
                  => callers'[p].pc = "settled" /\ untouched
            /\ callers[p].pc = "holding" /\ callers'[p] # callers[p]
                  => callers'[p].pc = "inFn"
            /\ ExitStep(p)
                  => LET waiting == Unresolved("dcm", k)
                         woken == {q \in waiting : callers'[q].pc = "resolved"}
                     IN  /\ dataChangeMutexes'[k].lastData = d.lastData
                         /\ IF waiting = {}
                            THEN ~Mutex_isLocked(dataChangeMutexes'[k])
                            ELSE /\ Mutex_isLocked(dataChangeMutexes'[k])
                                 /\ Cardinality(woken) = 1

(* C11: withDataChangeMutex skips when the gate declines.  fn is invoked   *)
(* exactly for the calls whose acquireIfChanged returned true; a call      *)
(* whose gate returned false resolves to null without invoking fn, without *)
(* acquiring or releasing the lock and without changing the baseline; a    *)
(* call whose gate returned true settles with the outcome of fn after      *)
(* exactly one release.                                                    *)
C11_SkipsWhenGateDeclines ==
    []C11_SettledRight /\ [][C11_HelperSteps]_vars

(* A call has been skipped and resolved to null while another caller is in *)
(* fn and holds the lock, and a third call has settled with fn's result.   *)
C11_Witness ==
    \E p, q, r \in DOMAIN callers :
        /\ callers[p].kind = "dcm" /\ callers[p].pc = "settled"
        /\ callers[p].out = NullResult /\ callers[p].ret = "false"
        /\ callers[q].kind = "dcm" /\ callers[q].pc = "inFn"
        /\ callers[q].key = callers[p].key
        /\ callers[r].kind = "dcm" /\ callers[r].pc = "settled"
        /\ callers[r].ret = "true" /\ callers[r].out.tag = "return"
        /\ callers[r].releases = 1

(* C12 as stated: the baseline persists across scoped calls.  The release  *)
(* at the end of fn leaves the baseline at the data X of the call, and a   *)
(* call issued while no other call is in progress runs fn exactly when no  *)
(* call has run fn yet or its compareFunction judges its data different    *)
(* from the data of the most recent call that ran fn.                      *)
C12_RunsExactlyOnChange ==
    [][\A p \in DOMAIN callers :
          /\ ExitStep(p) /\ callers[p].kind = "dcm"
                => getLastData(dataChangeMutexes'[callers[p].key])
                       = callers[p].newData
          /\ DcmCallStep(p) /\ (\A q \in DOMAIN callers : callers[q].pc = "idle")
                => (callers'[p].pc \in {"pending", "resolved"}
                        <=> ~callers'[p].sameAsRecorded)]_vars

-----------------------------------------------------------------------------
(* Specification SpecRoundTrip: every caller performs round trips, each an *)
(* acquire() followed by a release() of what it was granted, on a Mutex    *)
(* and on a Semaphore; callers may or may not overlap.  In this            *)
(* specification the field `releases` of a caller counts the round trips   *)
(* the caller has completed, and an idle caller keeps the kind and the key *)
(* of its last round trip.                                                 *)

NumRoundTripCallers == 3

(* The number of round trips a caller performs at most. *)
MaxRoundTrips == 2

RoundTripCallers == 1..NumRoundTripCallers

RoundTripMutexKeys == {"contacts"}
RoundTripSemaphoreKeys == {"sms"}

(* The record of p once it has released what the round trip acquired. *)
AfterRoundTrip(p) ==
    [IdleCaller EXCEPT !.kind = callers[p].kind, !.key = callers[p].key,
                       !.releases = callers[p].releases + 1]

(* p starts a round trip on mutexes[k]. *)
RoundTripAcquire(p, k) ==
    /\ callers[p].releases < MaxRoundTrips
    /\ Acquire(p, k)

(* p ends its round trip: mutex.release(). *)
RoundTripRelease(p) ==
    /\ callers[p].pc = "holding"
    /\ callers[p].kind = "mutex"
    /\ LET k == callers[p].key
           r == Mutex_release(mutexes[k])
       IN  /\ mutexes' = [mutexes EXCEPT ![k] = r.self]
           /\ callers' = AfterRelease(p, AfterRoundTrip(p), r.resolved)
    /\ UNCHANGED <<semaphores, dataChangeMutexes>>

(* p starts a round trip on semaphores[k]. *)
RoundTripSemAcquire(p, k) ==
    /\ callers[p].releases < MaxRoundTrips
    /\ SemAcquire(p, k)

(* p ends its round trip: semaphore.release(). *)
RoundTripSemRelease(p) ==
    /\ callers[p].pc = "holding"
    /\ callers[p].kind = "semaphore"
    /\ LET k == callers[p].key
           r == Semaphore_release(semaphores[k])
       IN  /\ semaphores' = [semaphores EXCEPT ![k] = r.self]
           /\ callers' = AfterRelease(p, AfterRoundTrip(p), r.resolved)
    /\ UNCHANGED <<mutexes, dataChangeMutexes>>

InitRoundTrip ==
    /\ mutexes = InitMutexes
    /\ semaphores = InitSemaphores
    /\ dataChangeMutexes = <<>>
    /\ callers = [p \in RoundTripCallers |-> IdleCaller]

NextRoundTrip ==
    \E p \in RoundTripCallers :
        \/ \E k \in RoundTripMutexKeys : RoundTripAcquire(p, k)
        \/ Resume(p)
        \/ RoundTripRelease(p)
        \/ \E k \in RoundTripSemaphoreKeys : RoundTripSemAcquire(p, k)
        \/ SemResume(p)
        \/ RoundTripSemRelease(p)

SpecRoundTrip == InitRoundTrip /\ [][NextRoundTrip]_vars

(* C13: round trip without contention.  Whenever every caller admitted to  *)
(* a Mutex or a Semaphore has released and nobody waits for it, however    *)
(* many round trips have been made, the Mutex reads unlocked with an empty *)
(* wait queue and the Semaphore has exactly its capacity C in permits.     *)
C13_RoundTripRestores ==
    /\ \A k \in MutexKeys :
          NobodyOn("mutex", k)
              => /\ ~Mutex_isLocked(mutexes[k])
                 /\ mutexes[k].waitQueue = <<>>
    /\ \A k \in SemaphoreKeys :
          NobodyOn("semaphore", k)
              => /\ Semaphore_availablePermits(semaphores[k]) = Capacity(k)
                 /\ semaphores[k].waitQueue = <<>>

(* Every caller has made all its round trips, some on the Mutex last and   *)
(* some on the Semaphore last; the Mutex is free and the Semaphore full.   *)
C13_Witness ==
    /\ \A p \in DOMAIN callers :
          callers[p].pc = "idle" /\ callers[p].releases = MaxRoundTrips
    /\ \E p, q \in DOMAIN callers :
          callers[p].kind = "mutex" /\ callers[q].kind = "semaphore"
    /\ ~Mutex_isLocked(mutexes["contacts"])
    /\ Semaphore_availablePermits(semaphores["sms"]) = SmsPermits

-----------------------------------------------------------------------------
(* Specification SpecDoubleRelease: callers use a Mutex directly, and a    *)
(* caller that has released its admission may call release() on the same   *)
(* Mutex a second time, at any later moment.  The position "released" is   *)
(* that of a caller that has released once and still has the Mutex at      *)
(* hand.                                                                   *)

NumDoubleReleaseCallers == 3

DoubleReleaseCallers == 1..NumDoubleReleaseCallers

DoubleReleaseKeys == {"contacts"}

(* p, holding mutexes[k], calls mutex.release() and keeps the Mutex at hand. *)
ReleaseKeeping(p) ==
    /\ callers[p].pc = "holding"
    /\ callers[p].kind = "mutex"
    /\ LET k == callers[p].key
           r == Mutex_release(mutexes[k])
       IN  /\ mutexes' = [mutexes EXCEPT ![k] = r.self]
           /\ callers' = AfterRelease(p,
                  [IdleCaller EXCEPT !.pc = "released", !.kind = "mutex",
                                     !.key = k, !.releases = 1],
                  r.resolved)
    /\ UNCHANGED <<semaphores, dataChangeMutexes>>

(* p, which has already released, calls mutex.release() a second time. *)
ReleaseAgain(p) ==
    /\ callers[p].pc = "released"
    /\ callers[p].kind = "mutex"
    /\ LET k == callers[p].key
           r == Mutex_release(mutexes[k])
       IN  /\ mutexes' = [mutexes EXCEPT ![k] = r.self]
           /\ callers' = AfterRelease(p, IdleCaller, r.resolved)
    /\ UNCHANGED <<semaphores, dataChangeMutexes>>

InitDoubleRelease ==
    /\ mutexes = InitMutexes
    /\ semaphores = <<>>
    /\ dataChangeMutexes = <<>>
    /\ callers = [p \in DoubleReleaseCallers |-> IdleCaller]

NextDoubleRelease ==
    \E p \in DoubleReleaseCallers :
        \/ \E k \in DoubleReleaseKeys : Acquire(p, k)
        \/ Resume(p)
        \/ Release(p)
        \/ ReleaseKeeping(p)
        \/ ReleaseAgain(p)

SpecDoubleRelease == InitDoubleRelease /\ [][NextDoubleRelease]_vars

(* C14 as stated: double-release is a silent no-op.  A second release() by *)
(* a caller that has already released changes nothing on the Mutex and     *)
(* admits no waiter, and at most one caller is admitted and has not        *)
(* released, whether the lock is free, held by another caller or has       *)
(* waiters queued.                                                         *)
C14_DoubleReleaseIsNoOp ==
    /\ [][\A p \in DOMAIN callers :
             callers[p].pc = "released" /\ callers'[p].pc = "idle"
                => /\ mutexes' = mutexes
                   /\ \A q \in DOMAIN callers \ {p} : callers'[q] = callers[q]]_vars
    /\ [](\A k \in MutexKeys : Cardinality(Admitted("mutex", k)) <= 1)

-----------------------------------------------------------------------------
(* Specification SpecFreeRelease: callers use a Mutex directly, and a      *)
(* caller with no call in progress may call release() on a Mutex whose     *)
(* locked flag is false and whose wait queue is empty.  The field          *)
(* `releases` of a caller records that its last call was such a release(). *)

NumFreeReleaseCallers == 3

FreeReleaseCallers == 1..NumFreeReleaseCallers

FreeReleaseKeys == {"contacts", "properties"}

(* p calls mutex.release() on the free mutexes[k]. *)
ReleaseFree(p, k) ==
    /\ callers[p].pc = "idle"
    /\ callers[p].releases = 0
    /\ ~mutexes[k].locked
    /\ Len(mutexes[k].waitQueue) = 0
    /\ LET r == Mutex_release(mutexes[k])
       IN  /\ mutexes' = [mutexes EXCEPT ![k] = r.self]
           /\ callers' = AfterRelease(p,
                  [IdleCaller EXCEPT !.kind = "mutex", !.key = k,
                                     !.releases = 1],
                  r.resolved)
    /\ UNCHANGED <<semaphores, dataChangeMutexes>>

InitFreeRelease ==
    /\ mutexes = InitMutexes
    /\ semaphores = <<>>
    /\ dataChangeMutexes = <<>>
    /\ callers = [p \in FreeReleaseCallers |-> IdleCaller]

NextFreeRelease ==
    \E p \in FreeReleaseCallers :
        \/ \E k \in FreeReleaseKeys : Acquire(p, k)
        \/ Resume(p)
        \/ Release(p)
        \/ \E k \in FreeReleaseKeys : ReleaseFree(p, k)

SpecFreeRelease == InitFreeRelease /\ [][NextFreeRelease]_vars

(* A release() on a free Mutex leaves the Mutex and all other callers as   *)
(* they were, and an acquire() on a Mutex with locked false and an empty   *)
(* queue is admitted at once and is then the only admitted caller.         *)
C15_FreeReleaseSteps ==
    \A p \in DOMAIN callers :
        /\ callers[p].pc = "idle" /\ callers'[p].pc = "idle"
           /\ callers'[p].releases = 1 /\ callers[p].releases = 0
              => /\ mutexes' = mutexes
                 /\ ~mutexes'[callers'[p].key].locked
                 /\ mutexes'[callers'[p].key].waitQueue = <<>>
                 /\ \A q \in DOMAIN callers \ {p} : callers'[q] = callers[q]
        /\ callers[p].pc = "idle" /\ callers'[p].pc # "idle"
           /\ ~mutexes[callers'[p].key].locked
           /\ mutexes[callers'[p].key].waitQueue = <<>>
              => /\ callers'[p].pc = "resolved"
                 /\ {q \in DOMAIN callers :
                        /\ callers'[q].kind = "mutex"
                        /\ callers'[q].key = callers'[p].key
                        /\ callers'[q].pc \in {"resolved", "holding"}} = {p}

(* C15: release() on a free Mutex is a no-op.  Calling release() on a      *)
(* Mutex whose locked flag is false and whose queue is empty changes       *)
(* nothing, so that a following acquire() is admitted immediately and is   *)
(* the only holder; at most one caller is admitted at any time.            *)
C15_FreeReleaseIsNoOp ==
    /\ [][C15_FreeReleaseSteps]_vars
    /\ [](\A k \in MutexKeys : Cardinality(Admitted("mutex", k)) <= 1)

(* A caller called release() on the free Mutex and then acquire(): it was  *)
(* admitted at once and is the only admitted caller, another caller waits. *)
C15_Witness ==
    \E p, q \in DOMAIN callers :
        /\ callers[p].pc = "holding" /\ callers[p].via = "fast"
        /\ callers[p].releases = 1 /\ callers[p].kind = "mutex"
        /\ Admitted("mutex", callers[p].key) = {p}
        /\ callers[q].pc = "pending" /\ callers[q].key = callers[p].key

-----------------------------------------------------------------------------
(* Specification SpecDefaultCompare: callers use a DataChangeMutex         *)
(* directly and never pass a compareFunction, so that every comparison is  *)
(* made by defaultCompare, on values of several shapes.                    *)

NumCompareCallers == 2

CompareCallers == 1..NumCompareCallers

CompareKeys == {"contacts"}

(* The values those callers pass as newData. *)
CompareValues ==
    {JSNull, Num1, Str1, ObjA, ObjAClone, ObjAB, ObjBA, ObjAU, Arr1}

InitDefaultCompare ==
    /\ mutexes = <<>>
    /\ semaphores = <<>>
    /\ dataChangeMutexes = InitDataChangeMutexes
    /\ callers = [p \in CompareCallers |-> IdleCaller]

NextDefaultCompare ==
    \E p \in CompareCallers :
        \/ \E k \in CompareKeys, newData \in CompareValues :
              AcquireIfChanged(p, k, newData, "defaultCompare")
        \/ DcmResume(p)
        \/ DcmObserve(p)
        \/ \E clearData \in BOOLEAN : ReleaseWithData(p, clearData)

SpecDefaultCompare == InitDefaultCompare /\ [][NextDefaultCompare]_vars

(* The value of property `key` among props. *)
C16_ValueAt(props, key) ==
    (CHOOSE i \in DOMAIN props : props[i].key = key)

RECURSIVE C16_StructurallyEqual(_, _)

(* Structural deep equality: objects with the same keys and deep-equal     *)
(* values, arrays with the same elements, primitives that are ===; values  *)
(* of different types are never equal.                                     *)
C16_StructurallyEqual(a, b) ==
    IF a.cls \in {"null", "primitive"} \/ b.cls \in {"null", "primitive"}
    THEN StrictEquals(a, b)
    ELSE /\ a.cls = b.cls
         /\ {a.props[i].key : i \in DOMAIN a.props}
                = {b.props[i].key : i \in DOMAIN b.props}
         /\ \A i \in DOMAIN a.props :
               C16_StructurallyEqual(
                   a.props[i].value,
                   b.props[C16_ValueAt(b.props, a.props[i].key)].value)

(* C16 as stated: the default comparison is structural deep equality.  A   *)
(* call of acquireIfChanged without compareFn on a recorded baseline a     *)
(* returns false exactly when a and the new value b are structurally       *)
(* equal, and proceeds otherwise.                                          *)
C16_DefaultIsDeepEquality ==
    [][\A p \in DOMAIN callers, k \in CompareKeys, b \in CompareValues :
          /\ AcquireIfChanged(p, k, b, "defaultCompare")
          /\ getLastData(dataChangeMutexes[k]) # JSNull
          => (callers'[p].pc = "returned"
                 <=> C16_StructurallyEqual(getLastData(dataChangeMutexes[k]), b))]_vars

-----------------------------------------------------------------------------
(* p, holding a Mutex, calls release(). *)
MutexReleaseStep(p) ==
    callers[p].kind = "mutex" /\ callers[p].pc = "holding"
        /\ callers'[p].pc = "idle"

(* What a release() does to the Mutex and to the waiters. *)
C17_ReleaseHandsOff ==
    \A p \in DOMAIN callers :
        MutexReleaseStep(p) =>
            LET k == callers[p].key
                m == mutexes[k]
                woken == {q \in DOMAIN callers :
                            callers[q].pc = "pending" /\ callers'[q].pc # "pending"}
            IN  IF Len(m.waitQueue) > 0
                THEN /\ mutexes'[k].waitQueue = Tail(m.waitQueue)
                     /\ woken = {Head(m.waitQueue)}
                     /\ callers'[Head(m.waitQueue)].pc = "resolved"
                     /\ Mutex_isLocked(mutexes'[k])
                     /\ Admitted("mutex", k) = {p}
                ELSE /\ ~Mutex_isLocked(mutexes'[k])
                     /\ mutexes'[k].waitQueue = <<>>
                     /\ woken = {}

(* From the handoff until it releases, the chosen waiter finds the Mutex   *)
(* locked and is the only admitted caller.                                 *)
C17_LockedWhileHandedOff ==
    \A p \in DOMAIN callers :
        /\ callers[p].kind = "mutex"
        /\ callers[p].pc \in {"resolved", "holding"}
        /\ callers[p].via = "handoff"
        => /\ Mutex_isLocked(mutexes[callers[p].key])
           /\ Admitted("mutex", callers[p].key) = {p}

(* C17: handoff never passes through the unlocked state and is never       *)
(* duplicated.  A release() with waiters removes exactly the earliest      *)
(* waiter, admits exactly that one and keeps locked true until that waiter *)
(* itself releases; a release() with an empty queue sets locked to false   *)
(* and admits nobody.                                                      *)
C17_HandoffStaysLocked ==
    []C17_LockedWhileHandedOff /\ [][C17_ReleaseHandsOff]_vars

(* A waiter that was handed the lock holds it and the lock reads locked,   *)
(* while the next waiter is still queued.                                  *)
C17_Witness ==
    \E p, q \in DOMAIN callers :
        /\ callers[p].kind = "mutex" /\ callers[p].pc = "holding"
        /\ callers[p].via = "handoff"
        /\ callers[q].pc = "pending" /\ callers[q].key = callers[p].key
        /\ mutexes[callers[p].key].waitQueue = <<q>>
        /\ Mutex_isLocked(mutexes[callers[p].key])

(* C18: the locked flag matches ownership.  Under disciplined use locked   *)
(* is true exactly when some caller has been granted the lock, at once or  *)
(* by a handoff, and has not released it; a non-empty wait queue implies   *)
(* locked, and the queue holds exactly the callers still waiting.          *)
C18_LockedIffOwned ==
    \A k \in MutexKeys :
        /\ Mutex_isLocked(mutexes[k]) <=> Admitted("mutex", k) # {}
        /\ Len(mutexes[k].waitQueue) > 0 => Mutex_isLocked(mutexes[k])
        /\ {mutexes[k].waitQueue[i] : i \in DOMAIN mutexes[k].waitQueue}
               = Unresolved("mutex", k)

(* The lock has been handed to a waiter whose continuation has not run     *)
(* yet: nobody is executing under the lock, the flag is true and another   *)
(* waiter is queued.                                                       *)
C18_Witness ==
    \E p, q \in DOMAIN callers :
        /\ callers[p].kind = "mutex" /\ callers[p].pc = "resolved"
        /\ callers[p].via = "handoff"
        /\ callers[q].pc = "pending" /\ callers[q].key = callers[p].key
        /\ Mutex_isLocked(mutexes[callers[p].key])
        /\ \A r \in DOMAIN callers : callers[r].pc # "holding"

-----------------------------------------------------------------------------
(* p, having a permit, calls semaphore.release(). *)
SemReleaseStep(p) ==
    callers[p].kind = "semaphore" /\ callers[p].pc = "holding"
        /\ callers'[p].pc = "idle"

(* Permits available plus permits granted and not released make C. *)
C19_Conserved ==
    \A k \in SemaphoreKeys :
        Semaphore_availablePermits(semaphores[k])
            + Cardinality(Admitted("semaphore", k)) = Capacity(k)

(* release() with waiters leaves the permit count unchanged and grants the *)
(* earliest waiter; release() without waiters increments the count by one. *)
C19_ReleaseTransfers ==
    \A p \in DOMAIN callers :
        SemReleaseStep(p) =>
            LET k == callers[p].key
                s == semaphores[k]
            IN  IF Len(s.waitQueue) > 0
                THEN /\ semaphores'[k].permits = s.permits
                     /\ callers'[Head(s.waitQueue)].pc = "resolved"
                ELSE semaphores'[k].permits = s.permits + 1

(* C19: Semaphore permit conservation.  Under disciplined use              *)
(* availablePermits() plus the number of callers granted a permit and not  *)
(* yet released equals the capacity C in every state, a waiter chosen by a *)
(* release() counting as granted from that release on.                     *)
C19_PermitConservation ==
    []C19_Conserved /\ [][C19_ReleaseTransfers]_vars

(* On sms a waiter has been granted a permit by a release() and has not    *)
(* resumed, two callers still have theirs, no permit is available.         *)
C19_Witness ==
    \E p \in Admitted("semaphore", "sms") :
        /\ callers[p].pc = "resolved" /\ callers[p].via = "handoff"
        /\ Cardinality(Admitted("semaphore", "sms")) = SmsPermits
        /\ Semaphore_availablePermits(semaphores["sms"]) = 0
        /\ Semaphore_availablePermits(semaphores["db"]) < DbPermits

-----------------------------------------------------------------------------
(* Specification SpecSemAnyOrder: acquire() and release() are called on a  *)
(* Semaphore in any order: besides the callers that release the permit     *)
(* they were granted, a caller with no call in progress may call release() *)
(* at any time.                                                            *)

NumAnyOrderCallers == 4

(* release() calls without a permit stop once the count exceeds the        *)
(* capacity by this much.                                                  *)
MaxExtraPermits == 2

AnyOrderCallers == 1..NumAnyOrderCallers

AnyOrderKeys == {"sms"}

(* p, with no call in progress, calls semaphore.release() on semaphores[k]. *)
SemReleaseAny(p, k) ==
    /\ callers[p].pc = "idle"
    /\ semaphores[k].permits < Capacity(k) + MaxExtraPermits
    /\ LET r == Semaphore_release(semaphores[k])
       IN  /\ semaphores' = [semaphores EXCEPT ![k] = r.self]
           /\ callers' = AfterRelease(p, callers[p], r.resolved)
    /\ UNCHANGED <<mutexes, dataChangeMutexes>>

InitSemAnyOrder ==
    /\ mutexes = <<>>
    /\ semaphores = InitSemaphores
    /\ dataChangeMutexes = <<>>
    /\ callers = [p \in AnyOrderCallers |-> IdleCaller]

NextSemAnyOrder ==
    \E p \in AnyOrderCallers :
        \/ \E k \in AnyOrderKeys : SemAcquire(p, k)
        \/ SemResume(p)
        \/ SemRelease(p)
        \/ \E k \in AnyOrderKeys : SemReleaseAny(p, k)

SpecSemAnyOrder == InitSemAnyOrder /\ [][NextSemAnyOrder]_vars

(* C20 as stated: Semaphore permit bounds.  In every state reachable by    *)
(* any sequence of acquire() and release() calls, 0 <= permits <= C while  *)
(* no caller is queued, and permits = 0 while a caller is queued.          *)
C20_PermitBounds ==
    \A k \in SemaphoreKeys :
        IF Len(semaphores[k].waitQueue) = 0
        THEN /\ 0 <= semaphores[k].permits
             /\ semaphores[k].permits <= Capacity(k)
        ELSE semaphores[k].permits = 0

-----------------------------------------------------------------------------
(* C21 as stated: the DataChangeMutex baseline invariant.  In every        *)
(* reachable state lastData equals the newData of the most recent          *)
(* acquireIfChanged call that returned true since the last clear, and      *)
(* lastData is null only if no call has returned true yet or the most      *)
(* recent baseline-changing event was releaseWithData(true), for every     *)
(* value of newData and for callers that waited in the queue.              *)
C21_BaselineInvariant ==
    \A k \in DataChangeMutexKeys :
        LET d == dataChangeMutexes[k]
        IN  /\ d.recorded.has => getLastData(d) = d.recorded.val
            /\ getLastData(d) = JSNull => ~d.recorded.has

(* Two acquireIfChanged calls in progress on one object that both went on  *)
(* to acquire(): at most one of them is admitted, the one that called      *)
(* first is admitted first, and the admitted one, once it has returned     *)
(* true, finds its own newData as the baseline.                            *)
C22_OneAtATime ==
    \A p, q \in DOMAIN callers :
        /\ p # q
        /\ callers[p].kind = "dcm" /\ callers[q].kind = "dcm"
        /\ callers[p].key = callers[q].key
        /\ callers[p].pc \in {"pending", "resolved", "holding"}
        /\ callers[q].pc \in {"pending", "resolved", "holding"}
        => /\ callers[p].pc = "pending" \/ callers[q].pc = "pending"
           /\ q \in callers[p].ahead => callers[p].pc = "pending"
           /\ callers[p].pc = "holding"
                 => /\ callers[p].ret = "true"
                    /\ getLastData(dataChangeMutexes[callers[p].key])
                           = callers[p].newData

(* A call that went on to acquire() never returns false: it stays waiting  *)
(* until a releaseWithData admits it, then returns true and records its    *)
(* newData as the baseline.                                                *)
C22_BothReturnTrue ==
    \A p \in DOMAIN callers :
        /\ callers[p].kind = "dcm" /\ callers[p].pc = "pending"
           /\ callers'[p] # callers[p] /\ callers'[p].pc # "pending"
              => /\ callers'[p].pc = "resolved"
                 /\ \E q \in DOMAIN callers \ {p} : DcmReleaseStep(q)
        /\ callers[p].kind = "dcm" /\ callers[p].pc = "resolved"
           /\ callers'[p].pc # "resolved"
              => /\ callers'[p].pc = "holding" /\ callers'[p].ret = "true"
                 /\ getLastData(dataChangeMutexes'[callers[p].key])
                        = callers[p].newData

(* C22: concurrent differing updates serialize.  Two acquireIfChanged      *)
(* calls with different values, both judged changed, issued concurrently   *)
(* both return true, their critical sections never overlap (the second is  *)
(* admitted only by the first one's releaseWithData), they run in call     *)
(* order, and the baseline ends as the value of the later-admitted call.   *)
C22_DifferingUpdatesSerialize ==
    []C22_OneAtATime /\ [][C22_BothReturnTrue]_vars

(* The second of two concurrent calls with different data has been handed  *)
(* the lock, has returned true and its value { a: 1 } is the baseline,     *)
(* while a third call with the number 1 waits for its turn.                *)
C22_Witness ==
    \E p, q \in DOMAIN callers :
        /\ callers[p].kind = "dcm" /\ callers[p].pc = "holding"
        /\ callers[p].via = "handoff" /\ callers[p].ret = "true"
        /\ callers[p].newData = ObjA /\ ~callers[p].sameAsLast
        /\ getLastData(dataChangeMutexes[callers[p].key]) = ObjA
        /\ callers[q].kind = "dcm" /\ callers[q].pc = "pending"
        /\ callers[q].key = callers[p].key /\ callers[q].newData = Num1
        /\ callers[q].ahead = {}

-----------------------------------------------------------------------------
(* Specification SpecReentrant: callers use a Mutex directly, and a caller *)
(* that holds a Mutex may call `await mutex.acquire()` again on the same   *)
(* Mutex before releasing, as the fn of a withMutex(k, ...) does when it   *)
(* calls withMutex(k, ...).  Positions:                                    *)
(*   "reentered"   holds the Mutex and awaits its own second acquire()     *)
(*   "reacquired"  the second acquire() has been resolved                  *)

NumReentrantCallers == 3

ReentrantCallers == 1..NumReentrantCallers

ReentrantKeys == {"contacts", "properties"}

(* p, holding mutexes[k], calls `await mutex.acquire()` on it again. *)
ReentrantAcquire(p) ==
    /\ callers[p].pc = "holding"
    /\ callers[p].kind = "mutex"
    /\ LET k == callers[p].key
           r == Mutex_acquire(mutexes[k], p)
       IN  /\ mutexes' = [mutexes EXCEPT ![k] = r.self]
           /\ callers' = [callers EXCEPT ![p].pc =
                  IF p \in r.resolved THEN "reacquired" ELSE "reentered"]
    /\ UNCHANGED <<semaphores, dataChangeMutexes>>

InitReentrant ==
    /\ mutexes = InitMutexes
    /\ semaphores = <<>>
    /\ dataChangeMutexes = <<>>
    /\ callers = [p \in ReentrantCallers |-> IdleCaller]

NextReentrant ==
    \E p \in ReentrantCallers :
        \/ \E k \in ReentrantKeys : Acquire(p, k)
        \/ Resume(p)
        \/ Release(p)
        \/ ReentrantAcquire(p)

SpecReentrant == InitReentrant /\ [][NextReentrant]_vars

(* The second acquire() of a holder is queued and not resolved; the caller *)
(* is in the wait queue of the Mutex it holds.                             *)
C23_QueuedBehindItself ==
    \A p \in DOMAIN callers :
        /\ callers[p].pc # "reacquired"
        /\ callers[p].pc = "reentered"
              => LET m == mutexes[callers[p].key]
                 IN  /\ Mutex_isLocked(m)
                     /\ \E i \in DOMAIN m.waitQueue : m.waitQueue[i] = p
                     /\ Admitted("mutex", callers[p].key) = {}

(* Once a holder awaits its own second acquire(), no step changes that     *)
(* caller, unlocks the Mutex or admits anybody on it.                      *)
C23_StuckForever ==
    \A p \in DOMAIN callers :
        callers[p].pc = "reentered" =>
            LET k == callers[p].key
            IN  /\ callers'[p] = callers[p]
                /\ Mutex_isLocked(mutexes'[k])
                /\ \A q \in DOMAIN callers :
                      callers'[q].kind = "mutex" /\ callers'[q].key = k
                      /\ callers'[q].pc # "reentered"
                          => callers'[q].pc = "pending"

(* C23: self-reentrant acquire deadlocks.  When the holder of a Mutex      *)
(* calls acquire() again on it before releasing, the second acquire is     *)
(* queued behind the holder itself and never resolves, the lock stays      *)
(* locked forever and every later acquire() on it is never admitted.       *)
C23_ReentrantDeadlock ==
    []C23_QueuedBehindItself /\ [][C23_StuckForever]_vars

(* A holder awaits its own second acquire() on contacts, a later caller is *)
(* queued behind it, and a third caller holds another Mutex.               *)
C23_Witness ==
    \E p, q, r \in DOMAIN callers :
        /\ callers[p].pc = "reentered" /\ callers[p].key = "contacts"
        /\ callers[q].pc = "pending" /\ callers[q].key = "contacts"
        /\ mutexes["contacts"].waitQueue = <<p, q>>
        /\ callers[r].pc = "holding" /\ callers[r].key = "properties"

-----------------------------------------------------------------------------
(* Specification SpecAbandon: callers use a Mutex directly, and a caller   *)
(* waiting in acquire() may stop waiting, as it does when it races the     *)
(* acquire against a timer and the timer wins.  Positions:                 *)
(*   "abandoned"  the caller went on without the lock; the resolve         *)
(*                callback of its acquire() is still in the wait queue     *)
(*   "orphaned"   that callback has been invoked by a release(): the lock  *)
(*                was handed to a caller that will never release it        *)

NumAbandonCallers == 3

AbandonCallers == 1..NumAbandonCallers

AbandonKeys == {"contacts"}

(* p stops waiting for its pending acquire(). *)
Abandon(p) ==
    /\ callers[p].pc = "pending"
    /\ callers[p].kind = "mutex"
    /\ callers' = [callers EXCEPT ![p].pc = "abandoned"]
    /\ UNCHANGED <<mutexes, semaphores, dataChangeMutexes>>

(* p, holding mutexes[k], calls mutex.release(); the callback it invokes   *)
(* may belong to a caller that stopped waiting.                            *)
AbandonRelease(p) ==
    /\ callers[p].pc = "holding"
    /\ callers[p].kind = "mutex"
    /\ LET k == callers[p].key
           r == Mutex_release(mutexes[k])
           after == AfterRelease(p, IdleCaller, r.resolved)
       IN  /\ mutexes' = [mutexes EXCEPT ![k] = r.self]
           /\ callers' = [q \in DOMAIN callers |->
                  IF q \in r.resolved /\ callers[q].pc = "abandoned"
                  THEN [after[q] EXCEPT !.pc = "orphaned"]
                  ELSE after[q]]
    /\ UNCHANGED <<semaphores, dataChangeMutexes>>

InitAbandon ==
    /\ mutexes = InitMutexes
    /\ semaphores = <<>>
    /\ dataChangeMutexes = <<>>
    /\ callers = [p \in AbandonCallers |-> IdleCaller]

NextAbandon ==
    \E p \in AbandonCallers :
        \/ \E k \in AbandonKeys : Acquire(p, k)
        \/ Resume(p)
        \/ Abandon(p)
        \/ AbandonRelease(p)

SpecAbandon == InitAbandon /\ [][NextAbandon]_vars

(* A caller that stopped waiting is still in the wait queue; once the lock *)
(* has been handed to it, the lock is locked and nobody holds it.          *)
C24_StillQueued ==
    \A p \in DOMAIN callers :
        LET m == mutexes[callers[p].key]
        IN  /\ callers[p].pc = "abandoned"
                  => \E i \in DOMAIN m.waitQueue : m.waitQueue[i] = p
            /\ callers[p].pc = "orphaned"
                  => /\ Mutex_isLocked(m)
                     /\ Admitted("mutex", callers[p].key) = {}
                     /\ \A i \in DOMAIN m.waitQueue : m.waitQueue[i] # p

(* Stopping to wait leaves the queue alone; a release() hands the lock to  *)
(* the head of the queue also when that caller stopped waiting; and once   *)
(* that has happened the lock stays locked and nobody is admitted again.   *)
C24_HandoffSteps ==
    \A p \in DOMAIN callers :
        LET k == callers[p].key
            m == mutexes[k]
        IN  /\ callers[p].pc = "pending" /\ callers'[p].pc = "abandoned"
                  => mutexes' = mutexes
            /\ MutexReleaseStep(p) /\ Len(m.waitQueue) > 0
                  => /\ callers'[Head(m.waitQueue)].pc =
                            IF callers[Head(m.waitQueue)].pc = "abandoned"
                            THEN "orphaned" ELSE "resolved"
                     /\ mutexes'[k].waitQueue = Tail(m.waitQueue)
            /\ callers[p].pc = "orphaned"
                  => /\ callers'[p] = callers[p]
                     /\ Mutex_isLocked(mutexes'[k])
                     /\ \A q \in DOMAIN callers :
                           callers'[q].kind = "mutex" /\ callers'[q].key = k
                               => callers'[q].pc \in
                                      {"pending", "abandoned", "orphaned"}

(* C24: an abandoned waiter still receives the handoff.  A caller that     *)
(* queued in acquire() and stopped waiting stays in the wait queue; in its *)
(* FIFO turn release() hands the lock to it, and as it never releases, the *)
(* lock stays held and the waiters behind it are never admitted.           *)
C24_AbandonedWaiterGetsLock ==
    []C24_StillQueued /\ [][C24_HandoffSteps]_vars

(* The lock has been handed to a caller that had stopped waiting; the      *)
(* former holder is done and a caller queued behind is still pending.      *)
C24_Witness ==
    \E p, q \in DOMAIN callers :
        /\ callers[p].pc = "orphaned" /\ callers[p].via = "handoff"
        /\ callers[q].pc = "pending" /\ callers[q].key = callers[p].key
        /\ mutexes[callers[p].key].waitQueue = <<q>>
        /\ Mutex_isLocked(mutexes[callers[p].key])

-----------------------------------------------------------------------------
(* Specification SpecNested: tasks run                                     *)
(*     withMutex(a, () => withMutex(b, fn))     with a # b.                *)
(* Task t has two frames in the caller table: OuterCall(t) is its call     *)
(* withMutex(a, ...), InnerCall(t) the call withMutex(b, fn) made by the   *)
(* fn of the outer call, whose result the outer fn returns.                *)

NumNestedTasks == 3

NestedTasks == 1..NumNestedTasks

NestedKeys == {"contacts", "properties"}

OuterCall(t) == 2 * t - 1

InnerCall(t) == 2 * t

(* Task t calls withMutex(k, () => withMutex(...)). *)
NestedOuterCall(t, k) ==
    /\ callers[InnerCall(t)].pc = "idle"
    /\ WithMutexCall(OuterCall(t), k)

(* The fn of t's outer call calls withMutex(k, fn) on another Mutex. *)
NestedInnerCall(t, k) ==
    /\ callers[OuterCall(t)].pc = "inFn"
    /\ k # callers[OuterCall(t)].key
    /\ WithMutexCall(InnerCall(t), k)

(* Mutant: the outer fn does not wait for the inner withMutex call. *)
NestedOuterExit_noawait(t) ==
    /\ callers[OuterCall(t)].pc = "inFn"
    /\ LET p == OuterCall(t)
           k == callers[p].key
           r == withMutex_exit(mutexes[k], NoOutcome)
       IN  /\ mutexes' = [mutexes EXCEPT ![k] = r.self]
           /\ callers' = AfterRelease(p,
                  [callers[p] EXCEPT !.pc = "settled",
                                     !.releases = @ + r.releases],
                  r.resolved)
    /\ UNCHANGED <<semaphores, dataChangeMutexes>>

(* The inner call of t has settled: the outer fn ends with its outcome and *)
(* the finally block of the outer call releases the outer Mutex.           *)
NestedOuterExit(t) ==
    /\ callers[OuterCall(t)].pc = "inFn"
    /\ callers[InnerCall(t)].pc = "settled"
    /\ LET p == OuterCall(t)
           q == InnerCall(t)
           k == callers[p].key
           r == withMutex_exit(mutexes[k], callers[q].out)
       IN  /\ mutexes' = [mutexes EXCEPT ![k] = r.self]
           /\ callers' = [AfterRelease(p,
                  [callers[p] EXCEPT !.pc = "settled", !.fn = callers[q].out,
                                     !.out = r.settle,
                                     !.releases = @ + r.releases],
                  r.resolved) EXCEPT ![q] = IdleCaller]
    /\ UNCHANGED <<semaphores, dataChangeMutexes>>

InitNested ==
    /\ mutexes = InitMutexes
    /\ semaphores = <<>>
    /\ dataChangeMutexes = <<>>
    /\ callers = [p \in 1..(2 * NumNestedTasks) |-> IdleCaller]

NextNested ==
    \E t \in NestedTasks :
        \/ \E k \in NestedKeys : NestedOuterCall(t, k)
        \/ WithEnter(OuterCall(t))
        \/ \E k \in NestedKeys : NestedInnerCall(t, k)
        \/ WithEnter(InnerCall(t))
        \/ \E outcome \in FnOutcomes : WithMutexExit(InnerCall(t), outcome)
        \/ NestedOuterExit(t)
        \/ Observe(OuterCall(t))

SpecNested == InitNested /\ [][NextNested]_vars

(* Tasks t and u each run the fn of their outer call on one Mutex and wait *)
(* in their inner call for the Mutex of the other's outer call.            *)
C25_Deadlocked(t, u) ==
    /\ t # u
    /\ callers[OuterCall(t)].pc = "inFn" /\ callers[OuterCall(u)].pc = "inFn"
    /\ callers[InnerCall(t)].pc = "pending"
    /\ callers[InnerCall(u)].pc = "pending"
    /\ callers[InnerCall(t)].key = callers[OuterCall(u)].key
    /\ callers[InnerCall(u)].key = callers[OuterCall(t)].key

(* C25: inconsistent nested lock order can deadlock.  Once two tasks each  *)
(* hold one Mutex through withMutex and wait in a nested withMutex for the *)
(* Mutex of the other, no step changes either task, both locks stay locked *)
(* and both inner calls stay in the wait queues.                           *)
C25_LockOrderDeadlock ==
    [][\A t, u \in NestedTasks :
          C25_Deadlocked(t, u) =>
              /\ \A p \in {OuterCall(t), InnerCall(t), OuterCall(u), InnerCall(u)} :
                    callers'[p] = callers[p]
              /\ Mutex_isLocked(mutexes'[callers[OuterCall(t)].key])
              /\ Mutex_isLocked(mutexes'[callers[OuterCall(u)].key])
              /\ \A p \in {InnerCall(t), InnerCall(u)} :
                    \E i \in DOMAIN mutexes'[callers[p].key].waitQueue :
                        mutexes'[callers[p].key].waitQueue[i] = p
      ]_vars

(* Task 1 runs withMutex(contacts, () => withMutex(properties, ...)), task *)
(* 2 the opposite order; each holds its outer Mutex and its inner call is  *)
(* first in the wait queue of the other's.                                 *)
C25_Witness ==
    /\ C25_Deadlocked(1, 2)
    /\ callers[OuterCall(1)].key = "contacts"
    /\ callers[OuterCall(2)].key = "properties"
    /\ mutexes["contacts"].waitQueue[1] = InnerCall(2)
    /\ mutexes["properties"].waitQueue[1] = InnerCall(1)
    /\ Mutex_isLocked(mutexes["contacts"])
    /\ Mutex_isLocked(mutexes["properties"])

-----------------------------------------------------------------------------
(* Specification SpecIndependent: callers go through withMutex,            *)
(* withSemaphore and withDataChangeMutex on entries of all three           *)
(* registries, two of which have the key contacts.                         *)

NumIndependentCallers == 3

IndependentCallers == 1..NumIndependentCallers

IndependentMutexKeys == {"contacts", "properties"}

IndependentSemaphoreKeys == {"sms"}

IndependentDcmKeys == {"contacts"}

(* Mutant: withMutex uses one Mutex instance whatever the key. *)
IndependentMutexCall_shared(p, k) ==
    /\ callers[p].pc = "idle"
    /\ LET r == Mutex_acquire(mutexes["contacts"], p)
       IN  /\ mutexes' = [mutexes EXCEPT !["contacts"] = r.self]
           /\ callers' = AfterAcquire(p, "mutex", k, r.resolved)
    /\ UNCHANGED <<semaphores, dataChangeMutexes>>

(* p calls withMutex(k, fn): `const mutex = mutexes[mutexKey]`, then       *)
(* `await mutex.acquire()`.                                                *)
IndependentMutexCall(p, k) == WithMutexCall(p, k)

(* p resumes from the await in withMutex or withSemaphore and calls fn(). *)
IndependentEnter(p) ==
    /\ callers[p].kind \in {"mutex", "semaphore"}
    /\ WithEnter(p)

InitIndependent ==
    /\ mutexes = InitMutexes
    /\ semaphores = InitSemaphores
    /\ dataChangeMutexes = InitDataChangeMutexes
    /\ callers = [p \in IndependentCallers |-> IdleCaller]

NextIndependent ==
    \E p \in IndependentCallers :
        \/ \E k \in IndependentMutexKeys : IndependentMutexCall(p, k)
        \/ \E k \in IndependentSemaphoreKeys : WithSemaphoreCall(p, k)
        \/ IndependentEnter(p)
        \/ WithMutexExit(p, [tag |-> "return", val |-> "result"])
        \/ WithSemaphoreExit(p, [tag |-> "return", val |-> "result"])
        \/ \E k \in IndependentDcmKeys :
              AcquireIfChanged(p, k, Num1, "defaultCompare")
        \/ DcmResume(p)
        \/ WithDcmEnter(p)
        \/ WithDcmSkip(p)
        \/ WithDcmExit(p, [tag |-> "return", val |-> "result"])
        \/ Observe(p)

SpecIndependent == InitIndependent /\ [][NextIndependent]_vars

(* The entries of the three registries, as <<registry, key>>. *)
C26_Entries ==
    ({"mutex"} \X DOMAIN mutexes) \cup ({"semaphore"} \X DOMAIN semaphores)
        \cup ({"dcm"} \X DOMAIN dataChangeMutexes)

(* Whether the step leaves entry e as it is. *)
C26_Untouched(e) ==
    CASE e[1] = "mutex" -> mutexes'[e[2]] = mutexes[e[2]]
      [] e[1] = "semaphore" -> semaphores'[e[2]] = semaphores[e[2]]
      [] e[1] = "dcm" -> dataChangeMutexes'[e[2]] = dataChangeMutexes[e[2]]

(* Whether entry e would admit an acquire at once. *)
C26_Free(e) ==
    CASE e[1] = "mutex" -> ~Mutex_isLocked(mutexes[e[2]])
      [] e[1] = "semaphore" -> Semaphore_availablePermits(semaphores[e[2]]) > 0
      [] e[1] = "dcm" -> ~dataChangeMutexes[e[2]].locked

(* The step is a step of p's helper call, not a handoff to p. *)
C26_Acts(p) ==
    callers'[p].pc # callers[p].pc /\ callers[p].pc # "pending"

(* The entry p's helper call works on. *)
C26_EntryOf(p) ==
    IF callers[p].pc = "idle"
    THEN <<callers'[p].kind, callers'[p].key>>
    ELSE <<callers[p].kind, callers[p].key>>

(* C26: named locks are independent instances.  A step of a helper call on *)
(* one entry of mutexes, semaphores or dataChangeMutexes leaves every      *)
(* other entry and every caller on another entry unchanged, and a call     *)
(* waits exactly when its own entry is taken, whatever the state of the    *)
(* others, mutexes[k] and dataChangeMutexes[k] being different entries.    *)
C26_IndependentEntries ==
    [][\A p \in DOMAIN callers :
          C26_Acts(p) =>
              /\ \A e \in C26_Entries \ {C26_EntryOf(p)} : C26_Untouched(e)
              /\ \A q \in DOMAIN callers \ {p} :
                    <<callers[q].kind, callers[q].key>> # C26_EntryOf(p)
                        => callers'[q] = callers[q]
              /\ callers[p].pc = "idle" /\ callers'[p].pc # "returned"
                    => (callers'[p].pc = "pending" <=> ~C26_Free(C26_EntryOf(p)))
      ]_vars

(* A withMutex('contacts', f) body and a withDataChangeMutex('contacts',   *)
(* d, g) body run at the same time while a third caller waits for          *)
(* mutexes.contacts.                                                       *)
C26_Witness ==
    \E p, q, r \in DOMAIN callers :
        /\ callers[p].pc = "inFn" /\ callers[p].kind = "mutex"
        /\ callers[p].key = "contacts"
        /\ callers[q].pc = "inFn" /\ callers[q].kind = "dcm"
        /\ callers[q].key = "contacts"
        /\ callers[r].pc = "pending" /\ callers[r].kind = "mutex"
        /\ callers[r].key = "contacts"

-----------------------------------------------------------------------------
(* p's withDataChangeMutex call on key k ran fn with data X, fn threw, and *)
(* no call has been admitted on k with other data since; nobody holds or   *)
(* waits for the lock.                                                     *)
C27_FailedWith(p, k, X) ==
    /\ callers[p].pc = "settled" /\ callers[p].kind = "dcm"
    /\ callers[p].key = k /\ callers[p].fn.tag = "throw"
    /\ callers[p].newData = X
    /\ dataChangeMutexes[k].recorded = [has |-> TRUE, val |-> X]
    /\ NobodyOn("dcm", k)

(* The steps of a failed critical section and of the call that follows it, *)
(* for data X accepted by OfInterest.                                      *)
C27_Steps(OfInterest(_)) ==
    \A p \in DOMAIN callers :
        LET k == callers[p].key
            d == dataChangeMutexes[k]
        IN  /\ ExitStep(p) /\ callers[p].kind = "dcm"
               /\ callers'[p].fn.tag = "throw" /\ OfInterest(callers[p].newData)
                  => /\ callers'[p].releases = callers[p].releases + 1
                     /\ dataChangeMutexes'[k].locked = (Len(d.waitQueue) > 0)
                     /\ callers'[p].out = callers'[p].fn
                     /\ getLastData(d) = callers[p].newData
                     /\ getLastData(dataChangeMutexes'[k]) = callers[p].newData
            /\ \A q \in DOMAIN callers \ {p}, kk \in DataChangeMutexKeys,
                  X \in Data, f \in CompareFunctions :
                  /\ C27_FailedWith(p, kk, X) /\ OfInterest(X)
                  /\ DcmCallStep(q) /\ callers'[q].key = kk
                  /\ \E Y \in Data :
                        Compare(f, X, Y) /\ AcquireIfChanged(q, kk, Y, f)
                  => /\ callers'[q].pc = "returned"
                     /\ dataChangeMutexes'[kk] = dataChangeMutexes[kk]

C27_AnyData(X) == TRUE

C27_NotNull(X) == X # JSNull

(* C27: a failed critical section still advances the baseline.  When       *)
(* withDataChangeMutex(key, X, fn) is admitted and fn throws, the lock is  *)
(* released once, the error is what the call settles with, and lastData    *)
(* is X before and after; the next call on the key with data equal to X    *)
(* under its comparison is declined and leaves the lock alone, so it       *)
(* resolves to null without running g.                                     *)
C27_RetryIsSkipped == [][C27_Steps(C27_AnyData)]_vars

(* The same for every X other than null. *)
C27_RetryIsSkippedUnlessNull == [][C27_Steps(C27_NotNull)]_vars

(* A call with { a: 1 } threw, and a following call with a structurally    *)
(* equal object was declined.                                              *)
C27_Witness ==
    \E p, q \in DOMAIN callers :
        /\ p # q
        /\ C27_FailedWith(p, "contacts", ObjA)
        /\ callers[p].out.tag = "throw"
        /\ callers[q].pc = "returned" /\ callers[q].key = "contacts"
        /\ callers[q].sameAsRecorded

-----------------------------------------------------------------------------
(* At most one caller of a DataChangeMutex is between the resolution of    *)
(* its acquire() and its releaseWithData.                                  *)
C28_OneSectionAtATime ==
    \A k \in DOMAIN dataChangeMutexes : Cardinality(Admitted("dcm", k)) <= 1

(* A call issued while an earlier call with equal data has not resumed     *)
(* from its acquire(), the baseline being absent or different, goes on to  *)
(* acquire() behind it; a waiting call is never declined; and a call that  *)
(* resumes returns true also when the baseline already equals its data.    *)
C28_Steps ==
    \A p, q \in DOMAIN callers :
        LET k == callers[p].key
            d == dataChangeMutexes[k]
        IN  /\ /\ p # q
               /\ callers[p].kind = "dcm"
               /\ callers[p].pc \in {"pending", "resolved"}
               /\ DcmCallStep(q) /\ callers'[q].key = k
               /\ \E f \in CompareFunctions, Y \in Data :
                     /\ Compare(f, callers[p].newData, Y)
                     /\ getLastData(d) = JSNull \/ ~Compare(f, getLastData(d), Y)
                     /\ AcquireIfChanged(q, k, Y, f)
               => /\ callers'[q].pc = "pending"
                  /\ callers[p].pc = "pending" => p \in callers'[q].ahead
                  /\ getLastData(dataChangeMutexes'[k]) = getLastData(d)
            /\ callers[p].kind = "dcm" /\ callers[p].pc = "pending"
                  => callers'[p].pc \in {"pending", "resolved"}
            /\ callers[p].kind = "dcm" /\ callers[p].pc = "resolved"
               /\ callers'[p].pc # "resolved"
                  => /\ callers'[p].pc = "holding"
                     /\ callers'[p].ret = "true"

(* C28: baseline check and baseline update are not one atomic step.  When  *)
(* two acquireIfChanged calls with equal data are issued before the first  *)
(* has resumed from its acquire(), on a fresh instance or with a different *)
(* baseline, the second is not declined: both return true and their        *)
(* critical sections run one after the other.                              *)
C28_DuplicateNotSkipped ==
    []C28_OneSectionAtATime /\ [][C28_Steps]_vars

(* The first of two calls with the same object has resumed and made it the *)
(* baseline; the second, issued before that, waits for the lock although   *)
(* a call issued now would be declined.                                    *)
C28_Witness ==
    \E p, q \in DOMAIN callers :
        /\ callers[p].pc = "holding" /\ callers[p].ret = "true"
        /\ callers[p].newData = ObjA
        /\ getLastData(dataChangeMutexes[callers[p].key]) = ObjA
        /\ callers[q].pc = "pending" /\ callers[q].kind = "dcm"
        /\ callers[q].key = callers[p].key
        /\ callers[q].newData = ObjA
        /\ ~acquireIfChanged_proceeds(ObjA, callers[q].newData, "strictEquals")

-----------------------------------------------------------------------------
(* The steps of a call issued while the fn of an admitted call with equal  *)
(* data X is running, for X accepted by OfInterest.                        *)
C29_Steps(OfInterest(_)) ==
    \A p, q \in DOMAIN callers :
        LET k == callers[p].key
        IN  /\ /\ p # q
               /\ callers[p].kind = "dcm" /\ callers[p].pc = "inFn"
               /\ OfInterest(callers[p].newData)
               /\ DcmCallStep(q) /\ callers'[q].key = k
               /\ \E f \in CompareFunctions, Y \in Data :
                     /\ Compare(f, callers[p].newData, Y)
                     /\ AcquireIfChanged(q, k, Y, f)
               => /\ callers'[q].pc = "returned"
                  /\ callers'[q].ret = "false"
                  /\ callers'[p] = callers[p]
                  /\ dataChangeMutexes'[k] = dataChangeMutexes[k]
            /\ callers[q].kind = "dcm" /\ callers[q].pc = "returned"
               /\ callers'[q] # callers[q]
               => /\ callers'[q].pc = "settled"
                  /\ callers'[q].out = NullResult
                  /\ callers'[q].fn = NoOutcome

C29_AnyData(X) == TRUE

C29_NotNull(X) == X # JSNull

(* C29: a skip does not imply the work is finished.  While the fn of an    *)
(* admitted withDataChangeMutex(key, X, fn) call is running, a second call *)
(* on the key with data equal to X is declined at once: it does not queue, *)
(* leaves the lock and the first call alone, and resolves to null without  *)
(* running g.                                                              *)
C29_SkippedWhileRunning == [][C29_Steps(C29_AnyData)]_vars

(* The same for every X other than null. *)
C29_SkippedWhileRunningUnlessNull == [][C29_Steps(C29_NotNull)]_vars

(* The fn of a call with { a: 1 } is running and a second call with a      *)
(* structurally equal object has resolved to null.                         *)
C29_Witness ==
    \E p, q \in DOMAIN callers :
        /\ callers[p].pc = "inFn" /\ callers[p].kind = "dcm"
        /\ callers[p].newData = ObjA
        /\ callers[q].pc = "settled" /\ callers[q].key = callers[p].key
        /\ callers[q].kind = "dcm"
        /\ callers[q].out = NullResult /\ callers[q].fn = NoOutcome

-----------------------------------------------------------------------------
(* Specification SpecHook: components that use useMutex(key) or            *)
(* useSemaphore(key).  In this specification callers[c] describes          *)
(* component c:                                                            *)
(*   hook      which of the two hooks the component uses                   *)
(*   acquired  the value of the ref `acquired`, kept across effect runs    *)
(*   live      the effect run that has not been cleaned up, 0 if none      *)
(*   runs      the effect runs of the component whose acquire() has not    *)
(*             been released, each with                                    *)
(*       pc        "unused", "pending" (acquire() not resolved),           *)
(*                 "resolved" (resolved, acquireMutex not resumed), "done" *)
(*       key       the registry key the run closed over                    *)
(*       mounted   the variable `mounted` of the run                       *)
(* A run is forgotten when release() is called for its acquire().  The     *)
(* wait queues hold <<component, run>> pairs.                              *)

NumHookComponents == 2

MaxOpenRuns == 3

HookComponents == 1..NumHookComponents

EffectRuns == 1..MaxOpenRuns

Hooks == {"useMutex", "useSemaphore"}

HookKeys(hook) ==
    IF hook = "useMutex" THEN {"contacts", "properties"} ELSE {"sms", "db"}

UnusedRun == [pc |-> "unused", key |-> "none", mounted |-> FALSE]

NewComponent ==
    [hook |-> "none", acquired |-> FALSE, live |-> 0,
     runs |-> [i \in EffectRuns |-> UnusedRun]]

(* The registries and the components, as one value. *)
HookWorld == [m |-> mutexes, s |-> semaphores, c |-> callers]

(* The run slots of component c that are free. *)
FreeRuns(w, c) == {i \in EffectRuns : w.c[c].runs[i].pc = "unused"}

(* The components after the callbacks of `resolved` have been invoked. *)
HookResolve(cs, resolved) ==
    [c \in DOMAIN cs |->
        [cs[c] EXCEPT !.runs = [i \in EffectRuns |->
            IF <<c, i>> \in resolved THEN [@[i] EXCEPT !.pc = "resolved"]
            ELSE @[i]]]]

(* `mutex.acquire()` / `semaphore.acquire()` issued by run i of c on the   *)
(* object its hook closed over.                                            *)
hook_acquire(w, c, i, k) ==
    IF w.c[c].hook = "useMutex"
    THEN LET r == Mutex_acquire(w.m[k], <<c, i>>)
         IN  [w EXCEPT !.m[k] = r.self, !.c = HookResolve(@, r.resolved)]
    ELSE LET r == Semaphore_acquire(w.s[k], <<c, i>>)
         IN  [w EXCEPT !.s[k] = r.self, !.c = HookResolve(@, r.resolved)]

(* `mutex.release()` / `semaphore.release()` called by the code of run i   *)
(* of c.                                                                   *)
hook_release(w, c, i) ==
    LET k == w.c[c].runs[i].key
        forgotten == [w EXCEPT !.c[c].runs[i] = UnusedRun]
    IN  IF w.c[c].hook = "useMutex"
        THEN LET r == Mutex_release(w.m[k])
             IN  [forgotten EXCEPT !.m[k] = r.self,
                                   !.c = HookResolve(@, r.resolved)]
        ELSE LET r == Semaphore_release(w.s[k])
             IN  [forgotten EXCEPT !.s[k] = r.self,
                                   !.c = HookResolve(@, r.resolved)]

(* The effect: `let mounted = true; ...; acquireMutex();` up to the await  *)
(* in acquireMutex, for key k.                                             *)
useEffect_setup(w, c, hook, k) ==
    LET i == CHOOSE n \in FreeRuns(w, c) : \A o \in FreeRuns(w, c) : n <= o
        started == [w EXCEPT !.c[c].hook = hook, !.c[c].live = i,
                             !.c[c].runs[i] = [pc |-> "pending", key |-> k,
                                               mounted |-> TRUE]]
    IN  hook_acquire(started, c, i, k)

(* The cleanup function returned by the effect:                            *)
(* `mounted = false; if (acquired.current) { release(); acquired.current = *)
(* false; }`.                                                              *)
useEffect_cleanup(w, c) ==
    LET i == w.c[c].live
        unmounted == [w EXCEPT !.c[c].runs[i].mounted = FALSE, !.c[c].live = 0]
    IN  IF w.c[c].acquired
        THEN [hook_release(unmounted, c, i) EXCEPT !.c[c].acquired = FALSE]
        ELSE unmounted

(* Mutant: acquireMutex that does not look at `mounted`. *)
acquire_resumed_unguarded(w, c, i) ==
    [w EXCEPT !.c[c].runs[i].pc = "done", !.c[c].acquired = TRUE]

(* acquireMutex / acquireSemaphore after the await:                        *)
(* `if (mounted) { acquired.current = true; } else { release(); }`.        *)
acquire_resumed(w, c, i) ==
    LET done == [w EXCEPT !.c[c].runs[i].pc = "done"]
    IN  IF w.c[c].runs[i].mounted
        THEN [done EXCEPT !.c[c].acquired = TRUE]
        ELSE hook_release(done, c, i)

(* The registries and the components become w. *)
HookBecomes(w) ==
    /\ mutexes' = w.m
    /\ semaphores' = w.s
    /\ callers' = w.c
    /\ UNCHANGED dataChangeMutexes

(* Component c is mounted with hook(k): its effect runs. *)
Mount(c, hook, k) ==
    /\ callers[c].live = 0
    /\ callers[c].hook \in {"none", hook}
    /\ FreeRuns(HookWorld, c) # {}
    /\ HookBecomes(useEffect_setup(HookWorld, c, hook, k))

(* The key of c changes: the cleanup of the live effect run is called and  *)
(* the effect runs again for the new key.                                  *)
KeyChange(c, k) ==
    /\ callers[c].live # 0
    /\ k \in HookKeys(callers[c].hook)
    /\ k # callers[c].runs[callers[c].live].key
    /\ FreeRuns(useEffect_cleanup(HookWorld, c), c) # {}
    /\ HookBecomes(useEffect_setup(useEffect_cleanup(HookWorld, c), c,
                                   callers[c].hook, k))

(* Component c is unmounted: the cleanup of its live effect run is called. *)
Unmount(c) ==
    /\ callers[c].live # 0
    /\ HookBecomes(useEffect_cleanup(HookWorld, c))

(* The acquire() of run i of c has resolved and acquireMutex resumes. *)
AcquireResumed(c, i) ==
    /\ callers[c].runs[i].pc = "resolved"
    /\ HookBecomes(acquire_resumed(HookWorld, c, i))

InitHook ==
    /\ mutexes = InitMutexes
    /\ semaphores = InitSemaphores
    /\ dataChangeMutexes = <<>>
    /\ callers = [c \in HookComponents |-> NewComponent]

NextHook ==
    \E c \in HookComponents :
        \/ \E hook \in Hooks : \E k \in HookKeys(hook) : Mount(c, hook, k)
        \/ \E k \in MutexKeys \cup SemaphoreKeys : KeyChange(c, k)
        \/ Unmount(c)
        \/ \E i \in EffectRuns : AcquireResumed(c, i)

SpecHook == InitHook /\ [][NextHook]_vars

(* The effect runs of the components using `hook` on key k whose acquire() *)
(* is at one of the positions pcs.                                         *)
C30_Runs(hook, k, pcs) ==
    {r \in (DOMAIN callers) \X EffectRuns :
        /\ callers[r[1]].hook = hook
        /\ callers[r[1]].runs[r[2]].key = k
        /\ callers[r[1]].runs[r[2]].pc \in pcs}

(* The elements of a wait queue. *)
C30_Queued(obj) == {obj.waitQueue[n] : n \in DOMAIN obj.waitQueue}

(* All effects are cleaned up and no acquire() is outstanding. *)
C30_Quiescent ==
    \A c \in DOMAIN callers :
        /\ callers[c].live = 0
        /\ \A i \in EffectRuns : callers[c].runs[i].pc = "unused"

(* C30: hook acquisitions are balanced.  For components using useMutex or  *)
(* useSemaphore, over every interleaving of effect run, admission, key     *)
(* change and cleanup: every lock and permit taken belongs to exactly one  *)
(* admitted acquire() of a hook for which release() has not been called,   *)
(* and every queued callback to one that was not admitted, so release() is *)
(* called once per admitted acquire() and never for another; an admitted   *)
(* acquire() whose effect was cleaned up has been released; `acquired` is  *)
(* set exactly while the live run holds its acquisition; and after the     *)
(* last cleanup and admission no lock or permit is held.                   *)
C30_HooksBalanced ==
    /\ \A c \in DOMAIN callers :
          /\ \A i \in EffectRuns :
                LET run == callers[c].runs[i]
                IN  /\ run.pc = "done" => run.mounted
                    /\ run.mounted <=> callers[c].live = i
          /\ callers[c].acquired
                <=> /\ callers[c].live # 0
                    /\ callers[c].runs[callers[c].live].pc = "done"
    /\ \A k \in DOMAIN mutexes :
          /\ Cardinality(C30_Runs("useMutex", k, {"resolved", "done"}))
                = IF Mutex_isLocked(mutexes[k]) THEN 1 ELSE 0
          /\ C30_Queued(mutexes[k]) = C30_Runs("useMutex", k, {"pending"})
          /\ Len(mutexes[k].waitQueue) = Cardinality(C30_Queued(mutexes[k]))
    /\ \A k \in DOMAIN semaphores :
          /\ Cardinality(C30_Runs("useSemaphore", k, {"resolved", "done"}))
                = Capacity(k) - Semaphore_availablePermits(semaphores[k])
          /\ C30_Queued(semaphores[k]) = C30_Runs("useSemaphore", k, {"pending"})
          /\ Len(semaphores[k].waitQueue) = Cardinality(C30_Queued(semaphores[k]))
    /\ C30_Quiescent => mutexes = InitMutexes /\ semaphores = InitSemaphores

(* A component was mounted, cleaned up before its acquire() on contacts    *)
(* resumed, and mounted again: the acquire() of the second run is queued   *)
(* behind the first one's, which will be released by acquireMutex; the     *)
(* other component waits for an sms permit.                                *)
C30_Witness ==
    \E c, o \in DOMAIN callers :
        /\ callers[c].hook = "useMutex"
        /\ callers[c].runs[1] =
              [pc |-> "resolved", key |-> "contacts", mounted |-> FALSE]
        /\ callers[c].runs[2] =
              [pc |-> "pending", key |-> "contacts", mounted |-> TRUE]
        /\ mutexes["contacts"].waitQueue = <<<<c, 2>>>>
        /\ callers[o].hook = "useSemaphore"
        /\ callers[o].live # 0

====
